---- MODULE Spec2Model ----
(***************************************************************************)
(* Selector healer service: candidate generation, scoring, reranking,      *)
(* healing memory and request validation (healer_service-main).            *)
(*                                                                         *)
(* Selectors, hints and attribute values are TLA+ strings handled          *)
(* character by character, as the Python code handles them.  Scores are    *)
(* integers in thousandths (1000 stands for 1.0).                          *)
(***************************************************************************)
EXTENDS Integers, Sequences, FiniteSets, TLC

VARIABLES healed, last, config, feedback

vars == <<healed, last, config, feedback>>

(***************************************************************************)
(* Bounds of the model                                                     *)
(***************************************************************************)
\* longest candidate list handed to final_rerank by the Rerank action
MaxRankLen == 2

\* most feedback requests accepted in one behaviour
MaxFeedback == 2

\* items of a batch request
MaxBatch == 2

\* largest limit handed to the generators by the Generate action
MaxLimit == 2

(***************************************************************************)
(* Python values                                                           *)
(***************************************************************************)
\* Optional values: None is the empty tuple, a present value v is <<v>>
None == << >>

Some(v) == <<v>>

IsNone(o) == o = << >>

Min(a, b) == IF a <= b THEN a ELSE b

Max(a, b) == IF a >= b THEN a ELSE b

(***************************************************************************)
(* str operations                                                          *)
(***************************************************************************)
LowerLetters == {"a", "b", "c", "d", "e", "f", "g", "h", "i", "j", "k", "l", "m",
                 "n", "o", "p", "q", "r", "s", "t", "u", "v", "w", "x", "y", "z"}

UpperLetters == {"A", "B", "C", "D", "E", "F", "G", "H", "I", "J", "K", "L", "M",
                 "N", "O", "P", "Q", "R", "S", "T", "U", "V", "W", "X", "Y", "Z"}

Digits == {"0", "1", "2", "3", "4", "5", "6", "7", "8", "9"}

\* \w of the re module
WordChars == LowerLetters \cup UpperLetters \cup Digits \cup {"_"}

\* the characters of a CSS identifier
NameChars == LowerLetters \cup UpperLetters \cup Digits \cup {"_", "-"}

Whitespace == {" "}

\* s[i-1:j] of Python: the characters i..j of s that exist
Slice(s, i, j) ==
    IF Max(i, 1) > Min(j, Len(s)) THEN "" ELSE SubSeq(s, Max(i, 1), Min(j, Len(s)))

\* the character at position i, "" beyond the ends
CharAt(s, i) == IF i >= 1 /\ i <= Len(s) THEN SubSeq(s, i, i) ELSE ""

\* p in s
Contains(p, s) ==
    \E i \in 1..(Len(s) - Len(p) + 1) : SubSeq(s, i, i + Len(p) - 1) = p

\* s.startswith(p)
StartsWith(p, s) == Len(p) <= Len(s) /\ SubSeq(s, 1, Len(p)) = p

\* s.count(c) for a single character c
Count(c, s) == Cardinality({i \in 1..Len(s) : CharAt(s, i) = c})

LowerChar(c) ==
    CASE c = "A" -> "a" [] c = "B" -> "b" [] c = "C" -> "c" [] c = "D" -> "d"
      [] c = "E" -> "e" [] c = "F" -> "f" [] c = "G" -> "g" [] c = "H" -> "h"
      [] c = "I" -> "i" [] c = "J" -> "j" [] c = "K" -> "k" [] c = "L" -> "l"
      [] c = "M" -> "m" [] c = "N" -> "n" [] c = "O" -> "o" [] c = "P" -> "p"
      [] c = "Q" -> "q" [] c = "R" -> "r" [] c = "S" -> "s" [] c = "T" -> "t"
      [] c = "U" -> "u" [] c = "V" -> "v" [] c = "W" -> "w" [] c = "X" -> "x"
      [] c = "Y" -> "y" [] c = "Z" -> "z" [] OTHER -> c

RECURSIVE Lower(_)
\* s.lower()
Lower(s) == IF s = "" THEN "" ELSE LowerChar(CharAt(s, 1)) \o Lower(Tail(s))

RECURSIVE LStrip(_, _)
LStrip(s, chars) ==
    IF s # "" /\ CharAt(s, 1) \in chars THEN LStrip(Tail(s), chars) ELSE s

RECURSIVE RStrip(_, _)
RStrip(s, chars) ==
    IF s # "" /\ CharAt(s, Len(s)) \in chars
    THEN RStrip(Slice(s, 1, Len(s) - 1), chars)
    ELSE s

\* s.strip(chars)
Strip(s, chars) == RStrip(LStrip(s, chars), chars)

RECURSIVE SplitFrom(_, _, _)
\* the words of s from position i on, cur being the word read so far
SplitFrom(s, i, cur) ==
    IF i > Len(s)
    THEN IF cur = "" THEN << >> ELSE <<cur>>
    ELSE IF CharAt(s, i) \in Whitespace
         THEN IF cur = ""
              THEN SplitFrom(s, i + 1, "")
              ELSE <<cur>> \o SplitFrom(s, i + 1, "")
         ELSE SplitFrom(s, i + 1, cur \o CharAt(s, i))

\* s.split()
Split(s) == SplitFrom(s, 1, "")

RECURSIVE Join(_, _)
\* sep.join(parts)
Join(sep, parts) ==
    IF parts = << >> THEN ""
    ELSE IF Len(parts) = 1 THEN parts[1]
    ELSE parts[1] \o sep \o Join(sep, Tail(parts))

RECURSIVE Replace(_, _, _)
\* s.replace(c, by) for a single character c
Replace(s, c, by) ==
    IF s = "" THEN ""
    ELSE (IF CharAt(s, 1) = c THEN by ELSE CharAt(s, 1)) \o Replace(Tail(s), c, by)

\* the length of the longest run of characters of cls that starts at i
RECURSIVE RunLen(_, _, _)
RunLen(s, i, cls) ==
    IF i <= Len(s) /\ CharAt(s, i) \in cls THEN 1 + RunLen(s, i + 1, cls) ELSE 0

\* list membership
InSeq(x, seq) == \E i \in 1..Len(seq) : seq[i] = x

Range(seq) == {seq[i] : i \in 1..Len(seq)}

\* seq[:n]
Take(seq, n) == SubSeq(seq, 1, Min(Len(seq), n))

NoDuplicates(seq) == \A i, j \in 1..Len(seq) : i # j => seq[i] # seq[j]

(***************************************************************************)
(* Scoring: main_bkp.py and xpath_generator.py                             *)
(***************************************************************************)
IsWordAt(s, i) == i >= 1 /\ i <= Len(s) /\ CharAt(s, i) \in WordChars

\* \b before position i
WordBoundary(s, i) == IsWordAt(s, i - 1) # IsWordAt(s, i)

\* re.search(r"data-\w{6,}", s)
MatchesDataWord(s) ==
    \E i \in 1..Len(s) :
        Slice(s, i, i + 4) = "data-" /\ RunLen(s, i + 5, WordChars) >= 6

\* re.search(r"\b(?=.*\d)[a-z0-9]{8,}\bweblab", s): the second and third
\* string literals of the list are adjacent and form one pattern
MatchesHashWeblab(s) ==
    \E k \in 1..Len(s) :
        /\ Slice(s, k, k + 5) = "weblab"
        /\ WordBoundary(s, k)
        /\ \E i \in 1..(k - 8) :
              /\ \A j \in i..(k - 1) : CharAt(s, j) \in LowerLetters \cup Digits
              /\ WordBoundary(s, i)
              /\ \E d \in i..Len(s) : CharAt(s, d) \in Digits

is_volatile(selector) ==
    \/ MatchesDataWord(selector)
    \/ MatchesHashWeblab(selector)
    \/ Contains("dingo", selector)
    \/ Contains("csa", selector)
    \/ Contains("ue", selector)
    \/ Contains("abtest", selector)

semantic_score(selector) ==
    Min((IF Contains("aria-", selector) THEN 300 ELSE 0)
        + (IF Contains("data-testid", selector) THEN 400 ELSE 0)
        + (IF Contains(":has-text", selector) THEN 200 ELSE 0)
        + (IF Contains("#", selector) THEN 200 ELSE 0)
        + (IF Contains(".", selector) THEN 100 ELSE 0),
        1000)

stability_score(selector) ==
    Max(1000
        - (IF is_volatile(selector) THEN 500 ELSE 0)
        - (IF Contains(":nth-child", selector) THEN 150 ELSE 0)
        - (IF Count(" ", selector) > 3 THEN 100 ELSE 0),
        0)

is_xpath(selector) ==
    \/ StartsWith("//", selector)
    \/ StartsWith("/", selector)
    \/ Contains("//", selector)
    \/ Contains("@", selector)
    \/ (Contains("[", selector) /\ Contains("]", selector) /\ Contains("@", selector))

\* re.search(r'\[\d+\]', xpath)
MatchesPosition(xpath) ==
    \E i \in 1..Len(xpath) :
        /\ CharAt(xpath, i) = "["
        /\ RunLen(xpath, i + 1, Digits) >= 1
        /\ CharAt(xpath, i + 1 + RunLen(xpath, i + 1, Digits)) = "]"

\* a stability that gives a deep path nothing
xpath_depth_only_score(xpath) == IF Count("/", xpath) > 4 THEN 0 ELSE 1000

xpath_stability_score(xpath) ==
    Max(Min(1000
            - (IF MatchesPosition(xpath) THEN 300 ELSE 0)
            - (IF Count("/", xpath) > 4 THEN 200 ELSE 0)
            - (IF Contains("contains(", xpath) /\ ~Contains("@", xpath) THEN 100 ELSE 0)
            + (IF Contains("@data-testid", xpath) THEN 200 ELSE 0)
            + (IF Contains("@aria-label", xpath) \/ Contains("@aria-", xpath) THEN 150 ELSE 0)
            + (IF Contains("@id", xpath) THEN 100 ELSE 0)
            + (IF Contains("@role", xpath) THEN 100 ELSE 0),
            1000),
        0)

xpath_semantic_score(xpath) ==
    Min((IF Contains("@data-testid", xpath) THEN 400 ELSE 0)
        + (IF Contains("@aria-", xpath) THEN 300 ELSE 0)
        + (IF Contains("@role", xpath) THEN 200 ELSE 0)
        + (IF Contains("text()", xpath) THEN 200 ELSE 0)
        + (IF Contains("@id", xpath) THEN 150 ELSE 0)
        + (IF Contains("@name", xpath) THEN 100 ELSE 0)
        + (IF Contains("@alt", xpath) THEN 200 ELSE 0)
        + (IF Contains("@title", xpath) THEN 150 ELSE 0),
        1000)

(***************************************************************************)
(* HTML documents.  A document is its length in characters and what        *)
(* BeautifulSoup makes of it: the elements of soup.find_all(True) in       *)
(* document order, each with its tag name, its attributes, its class list  *)
(* and its get_text(); xpath is the derived XPath of the element's         *)
(* descriptor ("" for none).                                               *)
(***************************************************************************)
\* BeautifulSoup(html, parser).find_all(True)
FindAll(html) == html.elements

\* el.get(name), "" standing for a missing attribute (the code only tests
\* the value's truth)
Get(el, name) ==
    IF name = "class" THEN Join(" ", el.class)
    ELSE IF name \in DOMAIN el.attrs THEN el.attrs[name] ELSE ""

(***************************************************************************)
(* soup.select(selector) on compound selectors: tag, .class, #id and       *)
(* [attr], [attr op 'value'] parts.  Any other string raises in select or  *)
(* matches nothing; validate_selector_in_html answers 0.0 in both cases.   *)
(***************************************************************************)
RECURSIVE UntilLen(_, _, _)
\* the number of characters from position i up to the next c
UntilLen(s, i, c) ==
    IF i > Len(s) \/ CharAt(s, i) = c THEN 0 ELSE 1 + UntilLen(s, i + 1, c)

\* the length of the CSS identifier that starts at i (0: none)
IdentLen(s, i) == IF CharAt(s, i) \in Digits THEN 0 ELSE RunLen(s, i, NameChars)

BadQuery == [ok |-> FALSE, tag |-> "", classes |-> << >>, ids |-> << >>, attrs |-> << >>]

RECURSIVE ParseParts(_, _, _)
ParseParts(s, i, q) ==
    IF i > Len(s) THEN q
    ELSE LET c == CharAt(s, i)
             n == IdentLen(s, i + 1)
             name == Slice(s, i + 1, i + n)
             j == i + 1 + n
         IN  IF n = 0 THEN BadQuery
             ELSE IF c = "." THEN ParseParts(s, j, [q EXCEPT !.classes = Append(@, name)])
             ELSE IF c = "#" THEN ParseParts(s, j, [q EXCEPT !.ids = Append(@, name)])
             ELSE IF c # "[" THEN BadQuery
             ELSE IF CharAt(s, j) = "]"
                  THEN ParseParts(s, j + 1,
                           [q EXCEPT !.attrs = Append(@, [name |-> name, op |-> "", val |-> ""])])
             ELSE LET opLen == IF CharAt(s, j) = "=" THEN 1
                               ELSE IF CharAt(s, j) \in {"*", "^", "$"} /\ CharAt(s, j + 1) = "="
                                    THEN 2 ELSE 0
                      quote == CharAt(s, j + opLen)
                      vlen == UntilLen(s, j + opLen + 1, quote)
                      close == j + opLen + 1 + vlen
                  IN  IF \/ opLen = 0
                         \/ quote \notin {"'", "\""}
                         \/ CharAt(s, close) # quote
                         \/ CharAt(s, close + 1) # "]"
                      THEN BadQuery
                      ELSE ParseParts(s, close + 2,
                               [q EXCEPT !.attrs = Append(@,
                                   [name |-> name,
                                    op |-> Slice(s, j, j + opLen - 1),
                                    val |-> Slice(s, j + opLen + 1, close - 1)])])

ParseCompound(s) ==
    LET n == IF CharAt(s, 1) = "*" THEN 1 ELSE IdentLen(s, 1)
    IN  IF s = "" THEN BadQuery
        ELSE ParseParts(s, n + 1,
                 [ok |-> TRUE, tag |-> Slice(s, 1, n), classes |-> << >>,
                  ids |-> << >>, attrs |-> << >>])

AttrMatches(a, el) ==
    LET v == Get(el, a.name)
    IN  /\ v # ""
        /\ CASE a.op = "" -> TRUE
             [] a.op = "=" -> v = a.val
             [] a.op = "*=" -> a.val # "" /\ Contains(a.val, v)
             [] a.op = "^=" -> a.val # "" /\ StartsWith(a.val, v)
             [] OTHER -> a.val # "" /\ Len(a.val) <= Len(v)
                         /\ Slice(v, Len(v) - Len(a.val) + 1, Len(v)) = a.val

ElementMatches(q, el) ==
    /\ q.ok
    /\ q.tag \in {"", "*", el.name}
    /\ \A i \in 1..Len(q.classes) : InSeq(q.classes[i], el.class)
    /\ \A i \in 1..Len(q.ids) : Get(el, "id") = q.ids[i]
    /\ \A i \in 1..Len(q.attrs) : AttrMatches(q.attrs[i], el)

\* bool(soup.select(selector)) for the page of elements
SelectMatches(selector, elements) ==
    LET q == ParseCompound(selector)
    IN  \E i \in 1..Len(elements) : ElementMatches(q, elements[i])

\* html_content is None or <<document>>
validate_selector_in_html(selector, html_content) ==
    IF IsNone(html_content) \/ html_content[1].len = 0 THEN 500
    ELSE IF \/ Contains("[text()=", selector)
            \/ Contains("[text():", selector)
            \/ Contains(":has-text(", selector)
            \/ Contains(":text(", selector)
            \/ Contains(">>", selector)
         THEN 0
         ELSE IF SelectMatches(selector, FindAll(html_content[1])) THEN 1000 ELSE 0

(***************************************************************************)
(* final_rerank                                                            *)
(***************************************************************************)
\* Config: the values the environment gives when it sets none of them
MAX_CANDIDATES == 40

MAX_DOM_CANDIDATES == 40

DefaultConfig ==
    [MAX_CANDIDATES |-> MAX_CANDIDATES, MAX_DOM_CANDIDATES |-> MAX_DOM_CANDIDATES,
     ENABLE_SCREENSHOT_ANALYSIS |-> TRUE, ENABLE_XPATH_GENERATION |-> TRUE]

\* a deployment that sets the four variables to small values
TightConfig ==
    [MAX_CANDIDATES |-> 2, MAX_DOM_CANDIDATES |-> 1,
     ENABLE_SCREENSHOT_ANALYSIS |-> FALSE, ENABLE_XPATH_GENERATION |-> FALSE]

Configs == {DefaultConfig, TightConfig}

SCORE_WEIGHT_BASE == 300

SCORE_WEIGHT_STABILITY == 400

SCORE_WEIGHT_SEMANTIC == 300

\* round(n / d, 0) for d > 0: to the nearest integer, a tie to the even one
RoundDiv(n, d) ==
    LET q == n \div d
        r == n % d
    IN  IF 2 * r < d THEN q
        ELSE IF 2 * r > d THEN q + 1
        ELSE IF q % 2 = 0 THEN q ELSE q + 1

\* a penalty that halves the base confidence
HalvedScore(base) == RoundDiv(base, 2)

\* round(final, 3) of the penalised score 0.1 * base
PenalisedScore(base) == RoundDiv(base, 10)

\* a score that weighs the three parts equally
EqualWeightScore(base, stable, semantic) == RoundDiv(base + stable + semantic, 3)

\* round(final, 3) of the weighted score
WeightedScore(base, stable, semantic) ==
    RoundDiv(base * SCORE_WEIGHT_BASE + stable * SCORE_WEIGHT_STABILITY
             + semantic * SCORE_WEIGHT_SEMANTIC, 1000)

\* one entry of ranked: (sel, round(final, 3), stable, semantic, validation)
ScoreCandidate(sel, base, sel_type, html_content) ==
    LET xp == is_xpath(sel) \/ sel_type = "xpath"
        stable == IF xp THEN xpath_stability_score(sel) ELSE stability_score(sel)
        semantic == IF xp THEN xpath_semantic_score(sel) ELSE semantic_score(sel)
        validation == IF xp THEN 500 ELSE validate_selector_in_html(sel, html_content)
    IN  [sel |-> sel,
         score |-> IF validation = 0 THEN PenalisedScore(base)
                   ELSE WeightedScore(base, stable, semantic),
         stable |-> stable, semantic |-> semantic, validation |-> validation]

\* x put before the entries of the sorted list that have its score
RECURSIVE InsertBeforeTies(_, _)
InsertBeforeTies(x, sorted) ==
    IF sorted = << >> THEN <<x>>
    ELSE IF sorted[1].score > x.score
         THEN <<sorted[1]>> \o InsertBeforeTies(x, Tail(sorted))
         ELSE <<x>> \o sorted

\* x put behind every entry of the sorted list whose score is not lower
RECURSIVE InsertByScore(_, _)
InsertByScore(x, sorted) ==
    IF sorted = << >> THEN <<x>>
    ELSE IF sorted[1].score >= x.score
         THEN <<sorted[1]>> \o InsertByScore(x, Tail(sorted))
         ELSE <<x>> \o sorted

\* ranked.sort(key=lambda x: x[1], reverse=True): stable, highest score first
RECURSIVE SortByScore(_)
SortByScore(ranked) ==
    IF ranked = << >> THEN << >>
    ELSE InsertByScore(ranked[Len(ranked)], SortByScore(SubSeq(ranked, 1, Len(ranked) - 1)))

\* zip(candidates, base_confidences, selector_types) stops at the shortest
final_rerank(candidates, base_confidences, selector_types, html_content) ==
    LET n == Min(Len(candidates), Min(Len(base_confidences), Len(selector_types)))
    IN  SortByScore([i \in 1..n |->
            ScoreCandidate(candidates[i], base_confidences[i], selector_types[i],
                           html_content)])

(***************************************************************************)
(* Candidate generation: extract_keywords, candidate_from_dom,             *)
(* generate_xpath_from_dom                                                 *)
(***************************************************************************)
stop_words ==
    {"click", "on", "the", "a", "an", "to", "for", "of", "in", "and", "or", "with",
     "button", "link", "field", "input", "select", "this", "that", "into", "from", "as"}

Punctuation == {".", ",", "!", "?", "(", ")", "[", "]", "{", "}"}

RECURSIVE KeywordsOf(_)
\* [w.strip('.,!?()[]{}') for w in words if w not in stop_words and len(w) > 2]
KeywordsOf(words) ==
    IF words = << >> THEN << >>
    ELSE (IF words[1] \notin stop_words /\ Len(words[1]) > 2
          THEN <<Strip(words[1], Punctuation)>> ELSE << >>)
         \o KeywordsOf(Tail(words))

\* text is "" for a missing or empty use_of_selector
extract_keywords(text) == IF text = "" THEN << >> ELSE KeywordsOf(Split(Lower(text)))

RECURSIVE NonEmpty(_)
\* [c for c in el.get("class") if c]
NonEmpty(tokens) ==
    IF tokens = << >> THEN << >>
    ELSE (IF tokens[1] # "" THEN <<tokens[1]>> ELSE << >>) \o NonEmpty(Tail(tokens))

\* ".".join([c for c in el.get("class") if c])
ClassChain(el) == Join(".", NonEmpty(el.class))

\* the attribute candidates of one element: data-testid, id, class
AttributeCandidates(el) ==
    (IF Get(el, "data-testid") # "" THEN <<"[data-testid='" \o Get(el, "data-testid") \o "']">>
     ELSE << >>)
    \o (IF Get(el, "id") # "" THEN <<"#" \o Get(el, "id")>> ELSE << >>)
    \o (IF el.class # << >> /\ ClassChain(el) # "" THEN <<"." \o ClassChain(el)>> ELSE << >>)

\* the tag-plus-text candidate of one element
TextCandidates(el) ==
    LET text == Strip(el.text, Whitespace)
    IN  IF text # "" /\ Len(text) < 60
        THEN <<el.name \o ":has-text(\"" \o text \o "\")">>
        ELSE << >>

\* whether some keyword occurs in the element's text, aria-label, title or alt
KeywordMatch(el, keywords) ==
    \E k \in 1..Len(keywords) :
        \/ Contains(keywords[k], Lower(Strip(el.text, Whitespace)))
        \/ Contains(keywords[k], Lower(Get(el, "aria-label")))
        \/ Contains(keywords[k], Lower(Get(el, "title")))
        \/ Contains(keywords[k], Lower(Get(el, "alt")))

\* the selector built for a semantic match: None or <<selector>>
SemanticSelector(el, keywords) ==
    LET kw == Join(" ", Take(keywords, 2))
    IN  IF Get(el, "data-testid") # "" THEN Some("[data-testid='" \o Get(el, "data-testid") \o "']")
        ELSE IF Get(el, "id") # "" THEN Some("#" \o Get(el, "id"))
        ELSE IF el.class # << >> /\ Get(el, "aria-label") # ""
             THEN IF ClassChain(el) # ""
                  THEN Some(el.name \o "." \o ClassChain(el) \o "[aria-label*='" \o kw \o "']")
                  ELSE None
        ELSE IF el.class # << >>
             THEN IF ClassChain(el) # "" THEN Some(el.name \o "." \o ClassChain(el)) ELSE None
        ELSE IF Get(el, "aria-label") # "" THEN Some(el.name \o "[aria-label*='" \o kw \o "']")
        ELSE IF Get(el, "title") # "" THEN Some(el.name \o "[title*='" \o kw \o "']")
        ELSE None

RECURSIVE SemanticCandidates(_, _, _)
\* semantic_candidates after the loop over the elements, acc holding those so far
SemanticCandidates(elements, keywords, acc) ==
    IF elements = << >> THEN acc
    ELSE LET el == elements[1]
             selector == IF keywords # << >> /\ KeywordMatch(el, keywords)
                         THEN SemanticSelector(el, keywords) ELSE None
         IN  SemanticCandidates(Tail(elements), keywords,
                 IF selector # None /\ selector[1] # "" /\ ~InSeq(selector[1], acc)
                 THEN Append(acc, selector[1]) ELSE acc)

RECURSIVE PlainCandidates(_)
\* candidates after the loop over the elements
PlainCandidates(elements) ==
    IF elements = << >> THEN << >>
    ELSE AttributeCandidates(elements[1]) \o TextCandidates(elements[1])
         \o PlainCandidates(Tail(elements))

RECURSIVE DedupeLoop(_, _, _)
\* for c in all: if c not in seen: out.append(c); if len(out) >= limit: break
DedupeLoop(all, out, limit) ==
    IF all = << >> THEN out
    ELSE LET out2 == IF InSeq(all[1], out) THEN out ELSE Append(out, all[1])
         IN  IF Len(out2) >= limit THEN out2 ELSE DedupeLoop(Tail(all), out2, limit)

\* all_candidates = candidates + semantic_candidates
candidates_plain_first(html, failed_selector, limit, use_of_selector) ==
    LET keywords == IF use_of_selector # "" THEN extract_keywords(use_of_selector) ELSE << >>
        semantic_candidates == SemanticCandidates(FindAll(html), keywords, << >>)
        candidates == PlainCandidates(FindAll(html))
    IN  DedupeLoop(candidates \o semantic_candidates, << >>, limit)

candidate_from_dom(html, failed_selector, limit, use_of_selector) ==
    LET keywords == IF use_of_selector # "" THEN extract_keywords(use_of_selector) ELSE << >>
        semantic_candidates == SemanticCandidates(FindAll(html), keywords, << >>)
        candidates == PlainCandidates(FindAll(html))
    IN  DedupeLoop(semantic_candidates \o candidates, << >>, limit)

\* the XPaths of one element, in the order the code appends them
ElementXPaths(el) ==
    LET text == Strip(el.text, Whitespace)
        text_escaped == Replace(text, "'", "\\'")
        ByAttr(name) == IF Get(el, name) # "" THEN <<"//*[@" \o name \o "='" \o Get(el, name) \o "']">>
                        ELSE << >>
    IN  ByAttr("id") \o ByAttr("data-testid") \o ByAttr("aria-label") \o ByAttr("role")
        \o (IF el.class # << >> THEN <<"//*[@class='" \o Join(" ", el.class) \o "']">> ELSE << >>)
        \o (IF text # "" /\ Len(text) < 60 /\ Len(text) > 0
            THEN <<"//" \o el.name \o "[contains(text(), '" \o text_escaped \o "')]",
                   "//" \o el.name \o "[text()='" \o text_escaped \o "']">>
            ELSE << >>)
        \o ByAttr("name")
        \o (IF el.name = "input" /\ Get(el, "type") # ""
            THEN <<"//input[@type='" \o Get(el, "type") \o "']">> ELSE << >>)
        \o ByAttr("placeholder") \o ByAttr("alt") \o ByAttr("title")

RECURSIVE AllXPaths(_)
AllXPaths(elements) ==
    IF elements = << >> THEN << >>
    ELSE ElementXPaths(elements[1]) \o AllXPaths(Tail(elements))

generate_xpath_from_dom(html, limit) == DedupeLoop(AllXPaths(FindAll(html)), << >>, limit)

(***************************************************************************)
(* Inputs of the model: pages, selectors, hints, base confidences          *)
(***************************************************************************)
NoAttrs == [k \in {} |-> ""]

El(name, attrs, class, text, xpath) ==
    [name |-> name, attrs |-> attrs, class |-> class, text |-> text, xpath |-> xpath]

\* a document of one blank: no element
PageEmpty == [len |-> 1, elements |-> << >>]

\* <html><body><a class="cta_button" aria-label="Watch the webinar now"></a>
\* </body></html>
PageWebinar ==
    [len |-> 87, elements |->
        <<El("html", NoAttrs, << >>, "", "/html"),
          El("body", NoAttrs, << >>, "", ""),
          El("a", ("aria-label" :> "Watch the webinar now"), <<"cta_button">>, "",
             "//a[@aria-label='Watch the webinar now']")>>]

\* <html><body><button data-testid="submit-btn" class="btn"> Go</button>
\* <input id="queue" title="Watch list" class="aria-busy" data-testid="">
\* <img alt="watch" data-testid="hero" class="aria-hidden"></body></html>
PageForm ==
    [len |-> 208, elements |->
        <<El("html", NoAttrs, << >>, " Go", ""),
          El("body", NoAttrs, << >>, " Go", ""),
          El("button", ("data-testid" :> "submit-btn"), <<"btn">>, " Go",
             "//*[@data-testid='submit-btn']"),
          El("input", ("id" :> "queue") @@ ("title" :> "Watch list") @@ ("data-testid" :> ""),
             <<"aria-busy">>, "", "//*[@id='queue']"),
          El("img", ("alt" :> "watch") @@ ("data-testid" :> "hero"), <<"aria-hidden">>, "",
             "")>>]

\* <html><body><button data-testid="submit-btn" class="btn"> Go</button>
\* </body></html>
PageLogin ==
    [len |-> 83, elements |->
        <<El("html", NoAttrs, << >>, " Go", ""),
          El("body", NoAttrs, << >>, " Go", ""),
          El("button", ("data-testid" :> "submit-btn"), <<"btn">>, " Go",
             "//*[@data-testid='submit-btn']")>>]

Pages == {PageEmpty, PageWebinar, PageForm}

Hints == {"", "watch the webinar", "Click the ... Go!"}

\* selectors handed to final_rerank directly: CSS that matches PageForm, CSS
\* that matches nothing, automation-only syntax, a CSS attribute selector
\* whose value holds an @, and XPaths
RankPool ==
    {".btn", "#gone", "[data-testid='submit-btn']", "button:has-text(\"Go\")",
     "a[href='mailto:a@b.c']",
     "//*[@id='queue']", "//a/b/c/d[1][contains(., 'x')]", "//div[2]"}

BaseGrid == {0, 456, 500, 1000}

RECURSIVE SeqsUpTo(_, _)
\* the sequences over S of length at most n
SeqsUpTo(S, n) ==
    IF n = 0 THEN {<< >>}
    ELSE LET shorter == SeqsUpTo(S, n - 1)
         IN  shorter \cup {Append(q, x) : q \in {r \in shorter : Len(r) = n - 1}, x \in S}

(***************************************************************************)
(* Calls of the pure functions: the initial state holds the arguments and  *)
(* the action applies the function to them.                                *)
(***************************************************************************)
RerankCalls ==
    {[op |-> "call_final_rerank", candidates |-> [i \in 1..Len(q) |-> q[i][1]],
      base_confidences |-> [i \in 1..Len(q) |-> q[i][2]], html_content |-> h] :
        q \in {r \in SeqsUpTo(RankPool \X BaseGrid, MaxRankLen) :
                  NoDuplicates([i \in 1..Len(r) |-> r[i][1]])},
        h \in {None, Some(PageForm)}}

\* the selector that stopped matching the webinar page
ScenarioSelector == "a.cta_button[aria-label^='Watch the webinar']"

GenerateCalls ==
    {[op |-> "call_generate", html |-> pg, failed_selector |-> ScenarioSelector,
      limit |-> l, use_of_selector |-> hint] :
        pg \in Pages, l \in (0..MaxLimit) \cup {MAX_DOM_CANDIDATES}, hint \in Hints}

\* selector_types as heal determines them
SelectorTypes(top) == [i \in 1..Len(top) |-> IF is_xpath(top[i]) THEN "xpath" ELSE "css"]

\* heal's scoring of generated candidates that the suggestion call gave no
\* confidence for: base confidence 0.5 each
LocallyScored(cands, html_content) ==
    final_rerank(cands, [i \in 1..Len(cands) |-> 500], SelectorTypes(cands), html_content)

ApplyRerank ==
    /\ last.op = "call_final_rerank"
    /\ last' = [op |-> "final_rerank",
                candidates |-> last.candidates,
                base_confidences |-> last.base_confidences,
                html_content |-> last.html_content,
                ranked |-> final_rerank(last.candidates, last.base_confidences,
                                        SelectorTypes(last.candidates), last.html_content)]
    /\ UNCHANGED <<healed, config, feedback>>

ApplyGenerate ==
    /\ last.op = "call_generate"
    /\ last' = [op |-> "generate",
                html |-> last.html, failed_selector |-> last.failed_selector,
                limit |-> last.limit,
                use_of_selector |-> last.use_of_selector,
                keywords |-> extract_keywords(last.use_of_selector),
                css |-> candidate_from_dom(last.html, last.failed_selector, last.limit,
                                           last.use_of_selector),
                xpaths |-> generate_xpath_from_dom(last.html, last.limit),
                ranked |-> LocallyScored(
                               candidate_from_dom(last.html, last.failed_selector,
                                                  last.limit, last.use_of_selector),
                               Some(last.html))]
    /\ UNCHANGED <<healed, config, feedback>>

InitFn ==
    /\ healed = << >> /\ feedback = << >> /\ config = DefaultConfig
    /\ last \in RerankCalls \cup GenerateCalls

NextFn == ApplyRerank \/ ApplyGenerate

SpecFn == InitFn /\ [][NextFn]_vars

(***************************************************************************)
(* Healing memory: the healed table of database.py.  Rows are kept in id   *)
(* order; ids are 1, 2, ... because the key is AUTOINCREMENT and no        *)
(* statement deletes a row.  The table has no uniqueness constraint on     *)
(* old_selector.                                                           *)
(***************************************************************************)
save_healing(memory, old_selector, new_selector, confidence, selector_type, llm_used, screenshot_analyzed) ==
    Append(memory, [id |-> Len(memory) + 1, old_selector |-> old_selector,
                    new_selector |-> new_selector, confidence |-> confidence,
                    selector_type |-> selector_type, llm_used |-> llm_used,
                    screenshot_analyzed |-> screenshot_analyzed,
                    success |-> "unset"])

MaxOf(rows) == CHOOSE i \in rows : \A j \in rows : j <= i

MinOf(rows) == CHOOSE i \in rows : \A j \in rows : i <= j

\* WHERE old_selector = ? ORDER BY id DESC LIMIT 1
get_healing_by_selector(memory, old_selector) ==
    LET rows == {i \in 1..Len(memory) : memory[i].old_selector = old_selector}
    IN  IF rows = {} THEN None ELSE Some(memory[MaxOf(rows)])

(***************************************************************************)
(* Requests.  An absent (None) optional field is None; an absent string    *)
(* (use_of_selector, screenshot_path) is "", which Python treats like None *)
(* wherever heal tests it.  A semantic DOM is a dict: size is its number   *)
(* of keys, elements the value of its 'elements' key if it has one.  An    *)
(* element descriptor carries the 'selector' key or not, and its 'xpath'   *)
(* ("" when missing or empty).                                             *)
(***************************************************************************)
Desc(selector, xpath) == [selector |-> selector, xpath |-> xpath]

TruthyList(o) == ~IsNone(o) /\ Len(o[1]) > 0

TruthyHtml(html) == ~IsNone(html) /\ html[1].len > 0

TruthyDom(dom) == ~IsNone(dom) /\ dom[1].size > 0

\* models.py HealRequest: fields are validated in declaration order, and a
\* validator sees in values only the fields validated before its own
HealRequest(raw) ==
    LET selector_ok == Len(raw.failed_selector) >= 1
                       /\ Strip(raw.failed_selector, Whitespace) # ""
        html_ok == IsNone(raw.html) \/ raw.html[1].len >= 1
        values_html == IF html_ok THEN raw.html ELSE None
        \* interactive_elements is declared after semantic_dom: not yet in values
        values_interactive == None
        dom_source_ok == TruthyHtml(values_html) \/ TruthyDom(raw.semantic_dom)
                         \/ TruthyList(values_interactive)
    IN  IF selector_ok /\ html_ok /\ dom_source_ok
        THEN Some([raw EXCEPT !.failed_selector = Strip(raw.failed_selector, Whitespace)])
        ELSE None

(***************************************************************************)
(* The stages of heal (main_bkp.py), in the order the handler runs them.   *)
(***************************************************************************)
\* DOMExtractor(html).extract_semantic_dom: one descriptor per element, with
\* its derived XPath
extract_semantic_dom(html) ==
    [i \in 1..Len(FindAll(html)) |-> Desc(None, FindAll(html)[i].xpath)]

\* dom_data['elements'] when dom_data is truthy and has the key, else None
DomElements(req) ==
    IF TruthyDom(req.semantic_dom) THEN req.semantic_dom[1].elements
    ELSE IF TruthyList(req.interactive_elements) THEN req.interactive_elements
    ELSE IF TruthyHtml(req.html) THEN Some(extract_semantic_dom(req.html[1]))
    ELSE None

RECURSIVE DescSelectors(_)
DescSelectors(elements) ==
    IF elements = << >> THEN << >>
    ELSE (IF IsNone(elements[1].selector) THEN << >> ELSE elements[1].selector)
         \o DescSelectors(Tail(elements))

RECURSIVE DescXPaths(_)
DescXPaths(elements) ==
    IF elements = << >> THEN << >>
    ELSE (IF elements[1].xpath = "" THEN << >> ELSE <<elements[1].xpath>>)
         \o DescXPaths(Tail(elements))

LocalCands(req, cfg) ==
    IF TruthyDom(req.semantic_dom)
    THEN IF IsNone(DomElements(req)) THEN << >>
         ELSE DescSelectors(Take(DomElements(req)[1], cfg.MAX_DOM_CANDIDATES))
    ELSE candidate_from_dom(req.html[1], req.failed_selector, cfg.MAX_DOM_CANDIDATES,
                            req.use_of_selector)

XPATH_LIMIT == 20

XPathCands(req, cfg) ==
    IF cfg.ENABLE_XPATH_GENERATION /\ req.selector_type \in {"xpath", "mixed"}
    THEN IF ~IsNone(DomElements(req)) THEN Take(DescXPaths(DomElements(req)[1]), XPATH_LIMIT)
         ELSE IF TruthyHtml(req.html) THEN generate_xpath_from_dom(req.html[1], XPATH_LIMIT)
         ELSE << >>
    ELSE << >>

\* get_visual_context_for_healing asks the vision model only for a screenshot
\* and with the analysis enabled
VisionCalled(req, cfg) == req.screenshot_path # "" /\ cfg.ENABLE_SCREENSHOT_ANALYSIS

\* lines 754-777: what heal takes from the suggestion call.  A reply is an
\* HTTP or transport error, content that parses to no dict, or a dict with or
\* without the candidates and confidence keys.
DefaultConfidences(n) == [i \in 1..n |-> [is_number |-> TRUE, value |-> 500]]

LLMStage(req, cfg, local_cands, llm_out) ==
    IF llm_out.kind = "json"
    THEN LET candidates == Take(IF IsNone(llm_out.candidates) THEN << >>
                                ELSE llm_out.candidates[1], cfg.MAX_CANDIDATES)
         IN  [candidates |-> candidates,
              confidences |-> IF IsNone(llm_out.confidence)
                              THEN DefaultConfidences(Len(candidates))
                              ELSE llm_out.confidence[1],
              llm_used |-> TRUE,
              screenshot_analyzed |-> VisionCalled(req, cfg)]
    ELSE LET candidates == Take(local_cands, cfg.MAX_CANDIDATES)
         IN  [candidates |-> candidates,
              confidences |-> DefaultConfidences(Len(candidates)),
              llm_used |-> FALSE,
              screenshot_analyzed |-> TRUE]

\* lines 790-793
RECURSIVE Merge(_, _)
Merge(all_candidates, merged) ==
    IF all_candidates = << >> THEN merged
    ELSE Merge(Tail(all_candidates),
               IF InSeq(all_candidates[1], merged) THEN merged
               ELSE Append(merged, all_candidates[1]))

\* lines 798-803: zip(candidates, confidences), a later pair overwrites
ZipLen(stage) == Min(Len(stage.candidates), Len(stage.confidences))

ConfMapFails(stage) ==
    stage.llm_used /\ \E i \in 1..ZipLen(stage) : ~stage.confidences[i].is_number

BaseConfidence(stage, c) ==
    LET hits == {i \in 1..ZipLen(stage) : stage.candidates[i] = c}
    IN  IF stage.llm_used /\ hits # {}
        THEN stage.confidences[MaxOf(hits)].value ELSE 500

(***************************************************************************)
(* call_llm_rerank.  A reply of the collaborator is a timeout, an HTTP     *)
(* error, content that is not JSON, JSON without the chosen_selector key,  *)
(* or JSON whose chosen_selector is the string text.                       *)
(***************************************************************************)
\* re.sub(r'^\d+\.\s*', '', chosen)
StripOrdinal(chosen) ==
    LET d == RunLen(chosen, 1, Digits)
    IN  IF d >= 1 /\ CharAt(chosen, d + 1) = "."
        THEN Slice(chosen, d + 2 + RunLen(chosen, d + 2, Whitespace), Len(chosen))
        ELSE chosen

call_llm_rerank(candidates, use_of_selector, reply) ==
    IF candidates = << >> \/ use_of_selector = "" THEN None
    ELSE IF reply.kind # "answer" THEN None
    ELSE LET chosen == StripOrdinal(reply.text)
         IN  IF chosen # "" /\ InSeq(chosen, candidates) THEN Some(chosen) ELSE None

RERANK_TOP == 8

IndexOf(x, seq) == MinOf({i \in 1..Len(seq) : seq[i] = x})

\* pop(idx) then insert(0, x)
MoveToFront(seq, idx, x) ==
    <<x>> \o SubSeq(seq, 1, idx - 1) \o SubSeq(seq, idx + 1, Len(seq))

\* lines 834-844
ApplyChoice(final_selectors, final_scores, llm_choice) ==
    IF ~IsNone(llm_choice) /\ llm_choice[1] # "" /\ InSeq(llm_choice[1], final_selectors)
    THEN LET idx == IndexOf(llm_choice[1], final_selectors)
             new_score == final_scores[1] + 50
         IN  [selectors |-> MoveToFront(final_selectors, idx, llm_choice[1]),
              scores |-> MoveToFront(final_scores, idx, Min(new_score, 1000))]
    ELSE [selectors |-> final_selectors, scores |-> final_scores]

\* a choice that is never null
chosen_or_blank(final_selectors) ==
    IF final_selectors # << >> THEN Some(final_selectors[1]) ELSE Some("")

\* line 846
ChosenOf(final_selectors) ==
    IF final_selectors # << >> THEN Some(final_selectors[1]) ELSE None

\* lines 783-795
MergedTop(cfg, local_cands, xpath_cands, candidates) ==
    Take(Merge(local_cands \o xpath_cands \o candidates, << >>), cfg.MAX_CANDIDATES)

\* line 803
BaseConfidences(stage, top) == [i \in 1..Len(top) |-> BaseConfidence(stage, top[i])]

\* what heal has computed when it reaches line 819; reranked is empty when
\* line 801 raised
Pre(local_cands, xpath_cands, stage, top, reranked) ==
    [local_cands |-> local_cands, xpath_cands |-> xpath_cands,
     all_candidates |-> local_cands \o xpath_cands \o stage.candidates,
     top |-> top, reranked |-> reranked,
     base_confidences |-> IF ConfMapFails(stage) THEN << >>
                          ELSE BaseConfidences(stage, top),
     final_selectors |-> [i \in 1..Len(reranked) |-> reranked[i].sel],
     final_scores |-> [i \in 1..Len(reranked) |-> reranked[i].score],
     llm_used |-> stage.llm_used, screenshot_analyzed |-> stage.screenshot_analyzed]

\* a trigger that waits for a third candidate
triggered_from_three(req, final_selectors) ==
    Len(final_selectors) >= 3 /\ req.use_of_selector # ""

RerankTriggered(req, final_selectors) ==
    Len(final_selectors) >= 2 /\ req.use_of_selector # ""

\* lines 819-844
FinalOrder(req, pre, reply) ==
    IF RerankTriggered(req, pre.final_selectors)
    THEN ApplyChoice(pre.final_selectors, pre.final_scores,
                     call_llm_rerank(Take(pre.final_selectors, RERANK_TOP),
                                     req.use_of_selector, reply))
    ELSE [selectors |-> pre.final_selectors, scores |-> pre.final_scores]

(***************************************************************************)
(* Requests and collaborator replies the service is driven with.           *)
(***************************************************************************)
RawRequest(failed_selector, html, semantic_dom, interactive_elements, use_of_selector, selector_type, screenshot_path) ==
    [failed_selector |-> failed_selector, html |-> html, semantic_dom |-> semantic_dom,
     interactive_elements |-> interactive_elements, use_of_selector |-> use_of_selector,
     selector_type |-> selector_type, screenshot_path |-> screenshot_path]

Dom(size, elements) == Some([size |-> size, elements |-> elements])

DescQueue == Desc(Some("#queue"), "//*[@id='queue']")

DescBtn == Desc(Some(".btn"), "")

DescBare == Desc(None, "//a/b/c/d[1]")

\* a markup of no character
PageBlank == [len |-> 0, elements |-> << >>]

ValidRequests ==
    {RawRequest("#old", Some(PageLogin), None, None, "", "mixed", ""),
     RawRequest("#old", Some(PageLogin), None, None, "Click the ... Go!", "css", "/shot.png"),
     RawRequest("#old", Some(PageEmpty), None, None, "watch the webinar", "mixed", ""),
     RawRequest(" #old ", None, Dom(3, Some(<<DescQueue, DescBtn, DescBare, DescQueue>>)), None,
                "watch the webinar", "mixed", ""),
     RawRequest("#old", Some(PageForm), Dom(1, None), None, "watch the webinar",
                "mixed", ""),
     RawRequest("#old", Some(PageLogin), Dom(0, None), Some(<<DescBtn, DescQueue>>), "",
                "mixed", "/shot.png")}

InvalidRequests ==
    {RawRequest(" ", Some(PageForm), None, None, "", "mixed", ""),
     RawRequest("", Some(PageForm), None, None, "", "mixed", ""),
     RawRequest("#old", None, None, None, "", "mixed", ""),
     RawRequest("#old", None, Dom(0, None), None, "", "mixed", ""),
     RawRequest("#old", None, None, Some(<< >>), "", "mixed", ""),
     RawRequest("#old", None, None, Some(<<DescBtn>>), "", "mixed", ""),
     RawRequest("#old", Some(PageBlank), Dom(3, Some(<<DescQueue>>)), None, "", "mixed", "")}

RawRequests == ValidRequests \cup InvalidRequests

Num(value) == [is_number |-> TRUE, value |-> value]

NotNum == [is_number |-> FALSE, value |-> 0]

LLMOut(kind, candidates, confidence) ==
    [kind |-> kind, candidates |-> candidates, confidence |-> confidence]

\* the prompt asks for the keys css, xpath, explanations and confidence: an
\* answer in that format has no candidates key.  A confidence entry is
\* whatever JSON value the model wrote: a number of any size and sign (a
\* negative one, a percentage such as 95), or a value float() rejects.
LLMReplies ==
    {LLMOut("http_error", None, None),
     LLMOut("not_a_dict", None, None),
     LLMOut("json", None, Some(<<Num(900)>>)),
     LLMOut("json", Some(<<"#queue", "//*[@data-testid='submit-btn']", ".btn", "#queue">>),
            Some(<<Num(900), Num(700), Num(800), Num(600)>>)),
     LLMOut("json", Some(<<".llm">>), None),
     LLMOut("json", Some(<<"#queue">>), Some(<<NotNum>>)),
     LLMOut("json", Some(<<".llm", ".gpt">>), Some(<<Num(-5000), Num(-3000)>>)),
     LLMOut("json", Some(<<".llm", ".gpt">>), Some(<<Num(95000), Num(90000)>>))}

Reply(kind, text) == [kind |-> kind, text |-> text]

NotCalled == Reply("not_called", "")

\* the answers tried on an offered list: an offered string, verbatim or behind
\* an ordinal, a string that is not offered, and a candidate ranked behind the
\* offered slice
RerankReplies(final_selectors) ==
    LET offered == Take(final_selectors, RERANK_TOP)
    IN  {Reply("timeout", ""), Reply("http_error", ""), Reply("not_json", ""),
         Reply("no_key", "")}
        \cup {Reply("answer", t) :
                t \in {offered[2], "2." \o offered[2], "#absent", "1. #absent", "",
                       final_selectors[Len(final_selectors)]}}

(***************************************************************************)
(* POST /heal of main_bkp.py.  last keeps the request (as received when it *)
(* is rejected, as validated otherwise), the replies the handler consumed, *)
(* what it computed and what it called on the way.  candidates,            *)
(* confidence_scores and chosen are the values the handler passes to       *)
(* HealResponse; response is the body it returns, if it returns one.  The  *)
(* healing_attempts table is only ever written: attempts are the rows the  *)
(* request adds to it.                                                     *)
(***************************************************************************)
\* models.py: HealResponse declares message, chosen and candidates as a list
\* of SelectorCandidate objects; keyword arguments it does not declare
\* (confidence_scores, healing_id, metadata) are ignored.  The handler passes
\* a list of strings, and a string is not a SelectorCandidate: construction
\* raises ValidationError unless the list is empty.
HealResponse(message, chosen, candidates) ==
    IF Len(candidates) > 0
    THEN None
    ELSE Some([message |-> message, chosen |-> chosen, candidates |-> candidates])

\* the handler's return HealResponse(...) inside its try block: the body, or
\* lines 890-899 when construction raises
Returned(r, message) ==
    LET body == HealResponse(message, r.chosen, r.candidates)
    IN  IF IsNone(body)
        THEN [r EXCEPT !.status = 500, !.attempts = Append(@, FALSE)]
        ELSE [r EXCEPT !.status = 200, !.response = body]

Blank(raw) ==
    [op |-> "heal", stage |-> "rejected", status |-> 422, req |-> raw,
     llm_out |-> LLMOut("not_called", None, None), rerank_reply |-> NotCalled,
     candidates |-> << >>, confidence_scores |-> << >>, chosen |-> None,
     healing_id |-> None, cached |-> FALSE, llm_used |-> FALSE,
     screenshot_analyzed |-> FALSE,
     generator_called |-> FALSE, scorer_called |-> FALSE, suggest_called |-> FALSE,
     vision_called |-> FALSE, rerank_called |-> FALSE,
     local_cands |-> << >>, xpath_cands |-> << >>, all_candidates |-> << >>,
     top |-> << >>, base_confidences |-> << >>, reranked |-> << >>, offered |-> << >>,
     saved |-> FALSE, attempts |-> << >>, response |-> None]

\* lines 686-699
MemoryHit(req, cached) ==
    Returned([Blank(req) EXCEPT !.stage = "memory", !.req = req,
                                !.candidates = <<cached.new_selector>>,
                                !.confidence_scores = <<cached.confidence>>,
                                !.chosen = Some(cached.new_selector),
                                !.healing_id = Some(cached.id), !.cached = TRUE],
             "Memory hit")

Traced(req, cfg, llm_out, pre) ==
    [Blank(req) EXCEPT !.req = req, !.llm_out = llm_out,
                       !.generator_called = TRUE, !.suggest_called = TRUE,
                       !.vision_called = VisionCalled(req, cfg),
                       !.local_cands = pre.local_cands, !.xpath_cands = pre.xpath_cands,
                       !.all_candidates = pre.all_candidates, !.top = pre.top,
                       !.base_confidences = pre.base_confidences,
                       !.llm_used = pre.llm_used,
                       !.screenshot_analyzed = pre.screenshot_analyzed]

\* lines 890-899: float(s) raised at line 801
Failed(req, cfg, llm_out, pre) ==
    [Traced(req, cfg, llm_out, pre) EXCEPT
        !.stage = "failed", !.status = 500, !.attempts = <<FALSE>>]

\* lines 846-888
Finished(req, cfg, llm_out, pre, reply, final, memory) ==
    LET called == RerankTriggered(req, pre.final_selectors)
        save == final.selectors # << >> /\ final.selectors[1] # ""
    IN  Returned(
        [Traced(req, cfg, llm_out, pre) EXCEPT
            !.stage = "pipeline", !.rerank_reply = reply,
            !.scorer_called = TRUE, !.rerank_called = called,
            !.reranked = pre.reranked,
            !.offered = IF called THEN Take(pre.final_selectors, RERANK_TOP) ELSE << >>,
            !.candidates = final.selectors, !.confidence_scores = final.scores,
            !.chosen = ChosenOf(final.selectors),
            !.healing_id = IF save THEN Some(Len(memory) + 1) ELSE None,
            !.saved = save, !.attempts = <<save>>],
        "Smart Healed")

\* lines 850-863
Recorded(memory, r) ==
    IF r.saved
    THEN save_healing(memory, r.req.failed_selector, r.chosen[1], r.confidence_scores[1],
                      IF r.top # << >> THEN SelectorTypes(r.top)[1] ELSE "css",
                      r.llm_used, r.screenshot_analyzed)
    ELSE memory

HealWith(requests, suggestions) ==
    \E raw \in requests : \E validated \in {HealRequest(raw)} :
        IF IsNone(validated)
        THEN last' = Blank(raw) /\ UNCHANGED <<healed, config, feedback>>
        ELSE
        \E req \in {validated[1]} :
        \E cached \in {get_healing_by_selector(healed, req.failed_selector)} :
        IF ~IsNone(cached)
        THEN last' = MemoryHit(req, cached[1]) /\ UNCHANGED <<healed, config, feedback>>
        ELSE
        \E local_cands \in {LocalCands(req, config)} :
        \E xpath_cands \in {XPathCands(req, config)} :
        \E llm_out \in suggestions :
        \E stage \in {LLMStage(req, config, local_cands, llm_out)} :
        \E top \in {MergedTop(config, local_cands, xpath_cands, stage.candidates)} :
        IF ConfMapFails(stage)
        THEN last' = Failed(req, config, llm_out,
                            Pre(local_cands, xpath_cands, stage, top, << >>))
             /\ UNCHANGED <<healed, config, feedback>>
        ELSE
        \E reranked \in {final_rerank(top, BaseConfidences(stage, top), SelectorTypes(top),
                                      req.html)} :
        \E pre \in {Pre(local_cands, xpath_cands, stage, top, reranked)} :
        \E reply \in IF RerankTriggered(req, pre.final_selectors)
                     THEN RerankReplies(pre.final_selectors) ELSE {NotCalled} :
        \E final \in {FinalOrder(req, pre, reply)} :
        \E r \in {Finished(req, config, llm_out, pre, reply, final, healed)} :
            /\ last' = r
            /\ healed' = Recorded(healed, r)
            /\ UNCHANGED <<config, feedback>>

Heal == HealWith(RawRequests, LLMReplies)

(***************************************************************************)
(* POST /heal of main.py, the application uvicorn starts.  It answers from *)
(* the matching engine's ranked results, and only a request that carries a *)
(* semantic DOM; for any other request the handler falls off its end and   *)
(* the body is null.  DOMExtractor and MatchingEngine are collaborators:    *)
(* an outcome is an exception or the list rank() returns.  Scores arrive   *)
(* in units of 10^-5 and are reported in units of 10^-4.                   *)
(***************************************************************************)
EngineResult(suggested, score, text, accessible_name) ==
    [suggested |-> suggested, score |-> score, base |-> score, attr |-> 0,
     element |-> [tag |-> "button", text |-> text, accessible_name |-> accessible_name,
                  xpath |-> ""]]

ResultSubmit == EngineResult("[data-testid='submit-btn']", 91237, "", "Go")

ResultBtn == EngineResult(".btn", 40005, "Go", "")

EngineOutcomes ==
    {[kind |-> "raise", results |-> << >>]}
    \cup {[kind |-> "ranked", results |-> r] :
            r \in {<< >>, <<ResultSubmit>>, <<ResultSubmit, ResultBtn>>,
                   <<ResultBtn, ResultSubmit>>}}

\* a response that picks the last candidate
build_response_choosing_last(engine_results) ==
    LET n == Len(engine_results)
    IN  [message |-> "Success",
         chosen |-> IF n > 0 THEN Some(engine_results[n].suggested) ELSE None,
         candidates |-> [i \in 1..n |-> [selector |-> engine_results[i].suggested]]]

build_custom_heal_response(engine_results) ==
    LET candidates ==
            [i \in 1..Len(engine_results) |->
                LET r == engine_results[i]
                IN  [selector |-> r.suggested,
                     score |-> RoundDiv(r.score, 10),
                     base_score |-> RoundDiv(r.base, 10),
                     attribute_score |-> RoundDiv(r.attr, 10),
                     tag |-> r.element.tag,
                     text |-> IF r.element.text # "" THEN r.element.text
                              ELSE r.element.accessible_name,
                     xpath |-> r.element.xpath]]
    IN  [message |-> "Success",
         chosen |-> IF candidates # << >> THEN Some(candidates[1].selector) ELSE None,
         candidates |-> candidates]

HealMain ==
    /\ \E raw \in RawRequests : \E validated \in {HealRequest(raw)} :
            IF IsNone(validated)
            THEN last' = [op |-> "heal_main", status |-> 422, req |-> raw, body |-> None]
            ELSE LET req == validated[1]
                 IN  IF TruthyDom(req.semantic_dom)
                     THEN \E outcome \in EngineOutcomes :
                            last' = IF outcome.kind = "raise"
                                    THEN [op |-> "heal_main", status |-> 500, req |-> req,
                                          body |-> None]
                                    ELSE [op |-> "heal_main", status |-> 200, req |-> req,
                                          body |-> Some(build_custom_heal_response(
                                                            outcome.results))]
                     ELSE last' = [op |-> "heal_main", status |-> 200, req |-> req,
                                   body |-> None]
    /\ UNCHANGED <<healed, config, feedback>>

(***************************************************************************)
(* The service.  It starts on an empty database under either deployment.   *)
(***************************************************************************)
Init == healed = << >> /\ feedback = << >> /\ config \in Configs /\ last = [op |-> "none"]

Next == Heal \/ HealMain

Spec == Init /\ [][Next]_vars
(***************************************************************************)
(* The service started on a database file that earlier runs have written.  *)
(* The healed table allows several rows for one old_selector, and rows of  *)
(* other selectors.                                                        *)
(***************************************************************************)
Row(id, old_selector, new_selector, confidence) ==
    [id |-> id, old_selector |-> old_selector, new_selector |-> new_selector,
     confidence |-> confidence, selector_type |-> "css", llm_used |-> TRUE,
     screenshot_analyzed |-> FALSE, success |-> "unset"]

PersistedMemories ==
    {<< >>,
     <<Row(1, "#older", "#newer", 640)>>,
     <<Row(1, "#old", "#first", 910), Row(2, "#older", "#newer", 640),
       Row(3, "#old", "#second", 730)>>}

InitPersisted ==
    /\ healed \in PersistedMemories /\ feedback = << >> /\ config \in Configs
    /\ last = [op |-> "none"]

SpecPersisted == InitPersisted /\ [][Next]_vars
(***************************************************************************)
(* POST /feedback of main_bkp.py and Database.save_feedback.  The feedback *)
(* table is kept in id order; SQLite does not enforce its foreign key, so  *)
(* a row is inserted also for a healing id that no healed row has.         *)
(***************************************************************************)
\* models.py FeedbackRequest: healing_id > 0, rating one of the enum values
FeedbackRequest(raw) ==
    IF raw.healing_id > 0 /\ raw.rating \in {"positive", "negative"}
    THEN Some(raw) ELSE None

FeedbackRequests ==
    {[healing_id |-> h, rating |-> r] :
        h \in 0..2, r \in {"positive", "negative", "neutral"}}

\* UPDATE healed SET success = ? WHERE id = ?
SetSuccess(memory, healing_id, success) ==
    [i \in 1..Len(memory) |->
        IF memory[i].id = healing_id THEN [memory[i] EXCEPT !.success = success]
        ELSE memory[i]]

\* the healed table after save_feedback; success = (rating == "positive")
save_feedback(memory, healing_id, rating) ==
    SetSuccess(memory, healing_id, IF rating = "positive" THEN "true" ELSE "false")

FeedbackWith(requests) ==
    /\ Len(feedback) < MaxFeedback
    /\ \E raw \in requests :
          IF IsNone(FeedbackRequest(raw))
          THEN /\ last' = [op |-> "feedback", status |-> 422, req |-> raw,
                           feedback_id |-> None]
               /\ UNCHANGED <<healed, config, feedback>>
          ELSE /\ feedback' = Append(feedback, [id |-> Len(feedback) + 1,
                                                healing_id |-> raw.healing_id,
                                                rating |-> raw.rating])
               /\ healed' = save_feedback(healed, raw.healing_id, raw.rating)
               /\ last' = [op |-> "feedback", status |-> 200, req |-> raw,
                           feedback_id |-> Some(Len(feedback) + 1)]
               /\ UNCHANGED config

Feedback == FeedbackWith(FeedbackRequests)

(***************************************************************************)
(* Healing and feedback requests interleaved, one at a time.  The healing  *)
(* requests carry a semantic DOM and the suggestion call is unreachable.   *)
(***************************************************************************)
ServiceRequests ==
    {RawRequest("#old", None, Dom(1, Some(<<DescBtn>>)), None, "", "css", ""),
     RawRequest(".gone", None, Dom(2, Some(<<DescQueue, DescBtn>>)), None, "", "css", ""),
     RawRequest("#old", None, None, None, "", "css", "")}

ServiceReplies == {LLMOut("http_error", None, None)}

HealService == HealWith(ServiceRequests, ServiceReplies)

NextService == HealService \/ Feedback

SpecService == Init /\ [][NextService]_vars

(***************************************************************************)
(* POST /heal-batch of main_bkp.py.  The batch is validated as a whole;     *)
(* heal_batch then calls heal for each item in turn, on the memory the     *)
(* items before it left.  An outcome of heal is what the handler computed  *)
(* (as in last) and the memory after it; heal raises when its status is    *)
(* not 200.                                                                *)
(***************************************************************************)
BATCH_MAX_ITEMS == 10

\* models.py BatchHealRequest: min_items=1, max_items=10, every item a valid
\* HealRequest
BatchHealRequest(raw) ==
    IF /\ Len(raw) >= 1 /\ Len(raw) <= BATCH_MAX_ITEMS
       /\ \A i \in 1..Len(raw) : ~IsNone(HealRequest(raw[i]))
    THEN Some([i \in 1..Len(raw) |-> HealRequest(raw[i])[1]])
    ELSE None

\* batches of: a request, a request for the same selector with another DOM,
\* a request without a DOM source, and a request whose semantic DOM has no
\* element, so that heal finds no candidate
Batches ==
    SeqsUpTo({RawRequest("#old", None, Dom(1, Some(<<DescBtn>>)), None, "", "css", ""),
              RawRequest("#old", None, Dom(2, Some(<<DescQueue, DescBtn>>)), None, "",
                         "css", ""),
              RawRequest("#old", None, None, None, "", "css", ""),
              RawRequest(".none", None, Dom(1, Some(<< >>)), None, "", "css", "")},
             MaxBatch)

\* heal called on a validated request: the outcomes over the replies of the
\* collaborators
HealOutcomes(memory, cfg, req, suggestions) ==
    LET cached == get_healing_by_selector(memory, req.failed_selector)
        local_cands == LocalCands(req, cfg)
        xpath_cands == XPathCands(req, cfg)
        After(llm_out) ==
            LET stage == LLMStage(req, cfg, local_cands, llm_out)
                top == MergedTop(cfg, local_cands, xpath_cands, stage.candidates)
                reranked == final_rerank(top, BaseConfidences(stage, top),
                                         SelectorTypes(top), req.html)
                pre == Pre(local_cands, xpath_cands, stage, top, reranked)
            IN  IF ConfMapFails(stage)
                THEN {[r |-> Failed(req, cfg, llm_out,
                                    Pre(local_cands, xpath_cands, stage, top, << >>)),
                       memory |-> memory]}
                ELSE {[r |-> Finished(req, cfg, llm_out, pre, reply,
                                      FinalOrder(req, pre, reply), memory),
                       memory |-> Recorded(memory,
                                      Finished(req, cfg, llm_out, pre, reply,
                                               FinalOrder(req, pre, reply), memory))] :
                        reply \in IF RerankTriggered(req, pre.final_selectors)
                                  THEN RerankReplies(pre.final_selectors)
                                  ELSE {NotCalled}}
    IN  IF ~IsNone(cached)
        THEN {[r |-> MemoryHit(req, cached[1]), memory |-> memory]}
        ELSE UNION {After(llm_out) : llm_out \in suggestions}

\* a loop body that counts a raising item and adds no result for it
batch_step_dropping_raised(run, o) ==
    LET raised == o.r.status # 200
        ok == ~raised /\ ~IsNone(o.r.response[1].chosen) /\ o.r.response[1].chosen[1] # ""
    IN  [memory |-> o.memory,
         results |-> IF raised THEN run.results ELSE Append(run.results, o.r.response[1]),
         traces |-> Append(run.traces, o.r),
         succeeded |-> run.succeeded + (IF ok THEN 1 ELSE 0),
         failed |-> run.failed + (IF ok THEN 0 ELSE 1)]

\* lines 911-930, one pass of the loop: heal returned a body (succeeded if its
\* chosen is truthy, failed otherwise) or raised (failed, and an empty result
\* is added)
BatchStep(run, o) ==
    LET raised == o.r.status # 200
        result == IF raised THEN HealResponse("Failed", None, << >>)[1]
                  ELSE o.r.response[1]
        ok == ~raised /\ ~IsNone(result.chosen) /\ result.chosen[1] # ""
    IN  [memory |-> o.memory,
         results |-> Append(run.results, result),
         traces |-> Append(run.traces, o.r),
         succeeded |-> run.succeeded + (IF ok THEN 1 ELSE 0),
         failed |-> run.failed + (IF ok THEN 0 ELSE 1)]

RECURSIVE BatchRuns(_, _, _, _)
\* the loop over req.selectors from the state run
BatchRuns(items, run, cfg, suggestions) ==
    IF items = << >> THEN {run}
    ELSE UNION {BatchRuns(Tail(items), BatchStep(run, o), cfg, suggestions) :
                    o \in HealOutcomes(run.memory, cfg, items[1], suggestions)}

HealBatch ==
    \E raw \in Batches : \E validated \in {BatchHealRequest(raw)} :
        IF IsNone(validated)
        THEN /\ last' = [op |-> "heal_batch", status |-> 422, req |-> raw,
                         results |-> << >>, traces |-> << >>, before |-> healed,
                         total_processed |-> 0, total_succeeded |-> 0, total_failed |-> 0]
             /\ UNCHANGED <<healed, config, feedback>>
        ELSE \E run \in BatchRuns(validated[1],
                                  [memory |-> healed, results |-> << >>, traces |-> << >>,
                                   succeeded |-> 0, failed |-> 0],
                                  config, ServiceReplies) :
                /\ last' = [op |-> "heal_batch", status |-> 200, req |-> validated[1],
                            results |-> run.results, traces |-> run.traces,
                            before |-> healed,
                            total_processed |-> Len(validated[1]),
                            total_succeeded |-> run.succeeded,
                            total_failed |-> run.failed]
                /\ healed' = run.memory
                /\ UNCHANGED <<config, feedback>>

\* single requests, batches and negative feedback on the first record
BatchFeedback == FeedbackWith({[healing_id |-> 1, rating |-> "negative"]})

NextBatch == HealService \/ HealBatch \/ BatchFeedback

SpecBatch == Init /\ [][NextBatch]_vars
(***************************************************************************)
(* Properties.                                                             *)
(***************************************************************************)
\* the row of the memory that holds the failed selector and was appended last
LatestRow(memory, old_selector) ==
    memory[CHOOSE i \in 1..Len(memory) :
              /\ memory[i].old_selector = old_selector
              /\ \A j \in (i + 1)..Len(memory) : memory[j].old_selector # old_selector]

Remembered(memory, old_selector) ==
    \E i \in 1..Len(memory) : memory[i].old_selector = old_selector

\* C1: a heal request whose failed selector the healing memory holds (exact
\* string match) returns the new selector of the row appended last for it as
\* the only candidate and as chosen, with that row's stored confidence; the
\* request calls no generator, no scorer, no LLM and no vision collaborator,
\* and appends no healing record.
MemoryShortCircuit ==
    [][(last'.op = "heal" /\ last'.status # 422
        /\ Remembered(healed, last'.req.failed_selector))
       => /\ ~IsNone(last'.response)
          /\ last'.response[1].candidates
                = <<LatestRow(healed, last'.req.failed_selector).new_selector>>
          /\ last'.response[1].chosen
                = Some(LatestRow(healed, last'.req.failed_selector).new_selector)
          /\ last'.confidence_scores
                = <<LatestRow(healed, last'.req.failed_selector).confidence>>
          /\ ~last'.generator_called /\ ~last'.scorer_called /\ ~last'.suggest_called
          /\ ~last'.vision_called /\ ~last'.rerank_called
          /\ healed' = healed]_vars

\* a hit on a memory that holds two rows for the failed selector, with a row
\* of another selector between them: the handler takes the later row, calls
\* nothing and appends nothing, and the request ends in status 500 because
\* the cached selector is not a SelectorCandidate object
MemoryHitAnswers500 ==
    /\ last.op = "heal" /\ last.cached
    /\ Len(healed) = 3
    /\ last.req.failed_selector = "#old"
    /\ last.chosen = Some("#second")
    /\ last.confidence_scores = <<730>>
    /\ ~last.generator_called /\ ~last.scorer_called /\ ~last.suggest_called
    /\ last.status = 500 /\ IsNone(last.response)
    /\ last.attempts = <<FALSE>>

\* the reply is none of the offered strings, verbatim or behind an ordinal
NoValidPick(reply, offered) ==
    \/ reply.kind \in {"timeout", "http_error", "not_json", "no_key"}
    \/ reply.kind = "answer" /\ ~InSeq(StripOrdinal(reply.text), offered)

\* C2: when the rerank collaborator gives no valid pick (timeout, transport
\* error, content that is not JSON, no chosen_selector key, or a string that
\* after stripping a leading ordinal is not one of the offered top 8), the
\* final order and the final scores are those of the locally scored list and
\* heal answers normally.
RerankFailOpen ==
    (last.op = "heal" /\ last.rerank_called
     /\ NoValidPick(last.rerank_reply, last.offered))
    => /\ last.candidates = [i \in 1..Len(last.reranked) |-> last.reranked[i].sel]
       /\ last.confidence_scores = [i \in 1..Len(last.reranked) |-> last.reranked[i].score]
       /\ last.status = 200 /\ ~IsNone(last.response)

\* the collaborator names a candidate that is ranked behind the offered
\* eight: order and scores stay those of the locally scored list, the record
\* is saved, and the request ends in status 500 because the candidates are
\* not SelectorCandidate objects
PickBehindOfferedAnswers500 ==
    /\ last.op = "heal" /\ last.rerank_called
    /\ Len(last.offered) = RERANK_TOP /\ Len(last.candidates) > RERANK_TOP
    /\ last.rerank_reply.kind = "answer"
    /\ InSeq(last.rerank_reply.text, last.candidates)
    /\ ~InSeq(last.rerank_reply.text, last.offered)
    /\ last.candidates = [i \in 1..Len(last.reranked) |-> last.reranked[i].sel]
    /\ last.confidence_scores = [i \in 1..Len(last.reranked) |-> last.reranked[i].score]
    /\ last.saved /\ last.status = 500 /\ IsNone(last.response)

\* the base confidence final_rerank was given for a candidate
BaseOf(call, sel) ==
    call.base_confidences[CHOOSE i \in 1..Len(call.candidates) : call.candidates[i] = sel]

\* C3, as stated: a candidate of validation 0.0 has a reported score of at
\* most 0.1 * base confidence (scores in thousandths: 10 * score <= base).
PenaltyNeverAboveTenth ==
    last.op = "final_rerank"
    => \A i \in 1..Len(last.ranked) :
          last.ranked[i].validation = 0
          => 10 * last.ranked[i].score <= BaseOf(last, last.ranked[i].sel)

\* C3, amended: a candidate of validation 0.0 has as reported score
\* 0.1 * base confidence rounded to three decimals, so the two differ by at
\* most 0.0005 and the score can lie above 0.1 * base confidence.
PenaltyIsRoundedTenth ==
    last.op = "final_rerank"
    => \A i \in 1..Len(last.ranked) :
          last.ranked[i].validation = 0
          => /\ 10 * last.ranked[i].score - BaseOf(last, last.ranked[i].sel) <= 5
             /\ BaseOf(last, last.ranked[i].sel) - 10 * last.ranked[i].score <= 5

\* base confidence 0.456 on a selector the page does not hold: 0.046
PenaltyRoundedUp ==
    /\ last.op = "final_rerank"
    /\ \E i \in 1..Len(last.ranked) :
          /\ last.ranked[i].validation = 0
          /\ BaseOf(last, last.ranked[i].sel) = 456
          /\ last.ranked[i].score = 46

\* C4: candidate_from_dom and generate_xpath_from_dom return no string twice
\* and at most limit strings, for every page and every limit from 0 on; the
\* merged list heal hands to scoring holds no string twice and at most
\* MAX_CANDIDATES strings.
GeneratedWithinLimit ==
    /\ last.op = "generate"
       => /\ NoDuplicates(last.css) /\ Len(last.css) <= last.limit
          /\ NoDuplicates(last.xpaths) /\ Len(last.xpaths) <= last.limit
    /\ (last.op = "heal" /\ last.stage \in {"pipeline", "failed"})
       => NoDuplicates(last.top) /\ Len(last.top) <= config.MAX_CANDIDATES

\* limit 0 on a page that yields candidates: one string comes back
OneForLimitZero ==
    /\ last.op = "generate" /\ last.limit = 0
    /\ Len(last.css) = 1 /\ Len(last.xpaths) = 1

\* C5: a valid heal request that yields no candidate (nothing generated from
\* the DOM, no XPath, nothing from the LLM) gets a normal response with an
\* empty candidate list and chosen = null, and appends no healing record.
NoCandidatesIsNormal ==
    [][(last'.op = "heal" /\ last'.stage \in {"pipeline", "failed"}
        /\ last'.all_candidates = << >>)
       => /\ last'.status = 200 /\ ~IsNone(last'.response)
          /\ last'.response[1].candidates = << >>
          /\ last'.response[1].chosen = None
          /\ last'.healing_id = None
          /\ healed' = healed]_vars

\* a page without elements and an LLM answer without candidates
NothingToChoose ==
    /\ last.op = "heal" /\ last.stage = "pipeline"
    /\ last.req.html = Some(PageEmpty)
    /\ last.llm_out.kind = "json" /\ last.suggest_called
    /\ last.all_candidates = << >>
    /\ last.status = 200
    /\ last.response = Some([message |-> "Smart Healed", chosen |-> None,
                              candidates |-> << >>])
    /\ last.attempts = <<FALSE>> /\ healed = << >>

\* C6: in every response of heal, chosen is the first entry of the returned
\* candidate list (its selector, where the entries are objects), and chosen
\* is null exactly when the list is empty.
ChosenIsFirst ==
    /\ (last.op = "heal" /\ ~IsNone(last.response))
       => last.response[1].chosen = IF last.response[1].candidates = << >> THEN None
                                    ELSE Some(last.response[1].candidates[1])
    /\ (last.op = "heal_main" /\ last.status = 200 /\ ~IsNone(last.body))
       => last.body[1].chosen = IF last.body[1].candidates = << >> THEN None
                                ELSE Some(last.body[1].candidates[1].selector)

\* the engine ranked two elements, the class selector first
EngineRankedTwo ==
    /\ last.op = "heal_main" /\ last.status = 200 /\ ~IsNone(last.body)
    /\ Len(last.body[1].candidates) = 2
    /\ last.body[1].chosen = Some(".btn")
    /\ last.body[1].candidates[1].score = 4000

\* C7: on the webinar page, with the usage hint "watch the webinar", the
\* semantic candidate that references aria-label ranks above every plain
\* class-only candidate of the same element in the locally scored list.
WebinarSemanticFirst ==
    (last.op = "generate" /\ last.html = PageWebinar
     /\ last.failed_selector = ScenarioSelector
     /\ last.use_of_selector = "watch the webinar")
    => \A i, j \in 1..Len(last.ranked) :
          (Contains("[aria-label", last.ranked[i].sel)
           /\ last.ranked[j].sel = "." \o ClassChain(FindAll(PageWebinar)[3]))
          => i < j

\* both candidates are generated and the class-only one is ranked first
WebinarClassFirst ==
    /\ last.op = "generate" /\ last.html = PageWebinar
    /\ last.use_of_selector = "watch the webinar"
    /\ Len(last.ranked) = 2
    /\ last.ranked[1].sel = ".cta_button"
    /\ last.ranked[2].sel = "a.cta_button[aria-label*='watch webinar']"
    /\ last.ranked[2].validation = 0

\* C8: for every element with a data-testid attribute of value v,
\* candidate_from_dom emits [data-testid='v'] when the limit leaves room, and
\* that selector's semantic score is strictly greater than the semantic score
\* of the class-only selector of the same element.
TestIdEmittedAndPreferred ==
    (last.op = "generate" /\ last.limit = MAX_DOM_CANDIDATES)
    => \A k \in 1..Len(FindAll(last.html)) :
          LET el == FindAll(last.html)[k]
              sel == "[data-testid='" \o Get(el, "data-testid") \o "']"
          IN  "data-testid" \in DOMAIN el.attrs
              => /\ InSeq(sel, last.css)
                 /\ el.class # << >>
                    => semantic_score(sel) > semantic_score("." \o ClassChain(el))

\* the form page generated in full: the class-only selector of the image
\* scores what its data-testid selector scores
TestIdTiedByClass ==
    /\ last.op = "generate" /\ last.limit = MAX_DOM_CANDIDATES /\ last.html = PageForm
    /\ InSeq("[data-testid='hero']", last.css) /\ InSeq(".aria-hidden", last.css)
    /\ semantic_score("[data-testid='hero']") = semantic_score(".aria-hidden")
    /\ ~InSeq("[data-testid='']", last.css)

\* C9: in the order final_rerank produces with the default weights and base
\* confidences in [0,1], no candidate of validation 0.0 (confirmed absent)
\* stands before a candidate of validation 0.5 (unverified).
AbsentNeverAboveUnverified ==
    last.op = "final_rerank"
    => \A i, j \in 1..Len(last.ranked) :
          (last.ranked[i].validation = 0 /\ last.ranked[j].validation = 500) => j < i

\* the closest call: an absent selector of base confidence 1.0 against the
\* least stable XPath of base confidence 0.0
UnverifiedFloorAboveAbsentCeiling ==
    /\ last.op = "final_rerank"
    /\ Len(last.ranked) = 2
    /\ last.ranked[1].validation = 500 /\ last.ranked[1].score = 160
    /\ BaseOf(last, last.ranked[1].sel) = 0
    /\ last.ranked[2].validation = 0 /\ last.ranked[2].score = 100
    /\ BaseOf(last, last.ranked[2].sel) = 1000

\* a request names a DOM source when its html, its semantic DOM or its list
\* of interactive elements is supplied and not empty
NamesDomSource(req) ==
    TruthyHtml(req.html) \/ TruthyDom(req.semantic_dom) \/ TruthyList(req.interactive_elements)

\* C10: request validation accepts a heal request exactly when its failed
\* selector is not blank and one of html, semantic_dom and
\* interactive_elements is supplied non-empty; a request rejected runs no
\* pipeline work.
AcceptsIffSelectorAndSource ==
    last.op = "heal"
    => /\ (last.status # 422)
          <=> (Strip(last.req.failed_selector, Whitespace) # "" /\ NamesDomSource(last.req))
       /\ last.status = 422
          => /\ ~last.generator_called /\ ~last.scorer_called /\ ~last.suggest_called
             /\ ~last.vision_called /\ ~last.rerank_called /\ ~last.saved

\* a request that supplies interactive elements only is rejected
InteractiveOnlyRejected ==
    /\ last.op = "heal" /\ last.status = 422
    /\ last.req.failed_selector = "#old"
    /\ IsNone(last.req.html) /\ IsNone(last.req.semantic_dom)
    /\ TruthyList(last.req.interactive_elements)

\* C11: every request that passes validation, whichever DOM source it
\* carries, is answered with a response that carries a (possibly empty)
\* ranked candidate list, and not with an HTTP 500.  A 500 of main.py is
\* counted only when its collaborators did not raise.
ValidRequestAnswered ==
    /\ (last.op = "heal" /\ last.status # 422)
       => last.status = 200 /\ ~IsNone(last.response)
    /\ (last.op = "heal_main" /\ last.status = 200)
       => ~IsNone(last.body)

\* an html-only request whose page yields candidates, with the suggestion
\* call failing: the handler ranks the local candidates, saves the record
\* and then answers 500, because the strings it passes to HealResponse are
\* not SelectorCandidate objects
HtmlOnlyAnswers500 ==
    /\ last.op = "heal" /\ last.stage = "pipeline"
    /\ last.req.html = Some(PageLogin) /\ IsNone(last.req.semantic_dom)
    /\ IsNone(last.req.interactive_elements)
    /\ last.llm_out.kind = "http_error"
    /\ Len(last.candidates) > 0 /\ last.saved
    /\ last.status = 500 /\ IsNone(last.response)
    /\ last.attempts = <<TRUE, FALSE>>

\* the suggestion call failed or its answer is malformed: a timeout or HTTP
\* error, content that is no JSON object, an object without the candidates
\* key or without the confidence key, or a confidence entry that is no number
SuggestionFailed(llm_out) ==
    \/ llm_out.kind \in {"http_error", "not_a_dict"}
    \/ /\ llm_out.kind = "json"
       /\ \/ IsNone(llm_out.candidates)
          \/ IsNone(llm_out.confidence)
          \/ \E i \in 1..Len(llm_out.confidence[1]) : ~llm_out.confidence[1][i].is_number

\* C12: when the suggestion call fails or answers malformed, heal ranks the
\* locally generated candidates only, each with base confidence 0.5, records
\* llm_used = false and returns a normal response.
SuggestionFailureFallsBack ==
    (last.op = "heal" /\ last.suggest_called /\ SuggestionFailed(last.llm_out))
    => /\ Range(last.top) \subseteq Range(last.local_cands) \cup Range(last.xpath_cands)
       /\ last.base_confidences = [i \in 1..Len(last.top) |-> 500]
       /\ ~last.llm_used
       /\ last.status = 200 /\ ~IsNone(last.response)

\* the answer's confidence entry is no number: float() raises outside the
\* handler's fallback and the request ends in status 500 with nothing ranked
NonNumericConfidenceAnswers500 ==
    /\ last.op = "heal" /\ last.stage = "failed"
    /\ last.llm_out.kind = "json"
    /\ last.llm_out.confidence = Some(<<NotNum>>)
    /\ last.llm_used /\ last.reranked = << >> /\ ~last.scorer_called
    /\ last.status = 500 /\ last.attempts = <<FALSE>>

\* C13: success of a healing record is unset from the record's creation until
\* the first feedback for its id, is set by that feedback (true for positive,
\* false for negative) and is not changed by any later operation, a second
\* feedback for the same id included.
SuccessSetOnce ==
    [][/\ Len(healed') >= Len(healed)
       /\ \A i \in 1..Len(healed) :
             /\ healed'[i].id = healed[i].id
             /\ healed[i].success # "unset" => healed'[i].success = healed[i].success
             /\ healed'[i].success # healed[i].success
                => /\ last'.op = "feedback" /\ last'.status = 200
                   /\ last'.req.healing_id = healed[i].id
                   /\ healed'[i].success
                        = IF last'.req.rating = "positive" THEN "true" ELSE "false"
       /\ \A i \in (Len(healed) + 1)..Len(healed') : healed'[i].success = "unset"]_vars

\* a positive and then a negative feedback for record 1: the record's success
\* has gone from true to false
SecondFeedbackOverwrote ==
    /\ Len(healed) >= 1 /\ healed[1].id = 1
    /\ Len(feedback) = 2
    /\ feedback[1].healing_id = 1 /\ feedback[1].rating = "positive"
    /\ feedback[2].healing_id = 1 /\ feedback[2].rating = "negative"
    /\ healed[1].success = "false"

\* the locally scored list of a request: selectors and scores in rank order
RankedSelectors(r) == [i \in 1..Len(r.reranked) |-> r.reranked[i].sel]

RankedScoreOf(r, sel) ==
    r.reranked[CHOOSE i \in 1..Len(r.reranked) : r.reranked[i].sel = sel].score

\* the reply names one of the offered strings, verbatim or behind an ordinal
ValidPick(reply, offered) ==
    reply.kind = "answer" /\ StripOrdinal(reply.text) # ""
    /\ InSeq(StripOrdinal(reply.text), offered)

\* seq without its entries equal to x
RECURSIVE Without(_, _)
Without(seq, x) ==
    IF seq = << >> THEN << >>
    ELSE (IF seq[1] = x THEN << >> ELSE <<seq[1]>>) \o Without(Tail(seq), x)

\* C14: when the rerank collaborator returns a string that matches a
\* candidate, that candidate moves to rank 1 with score
\* min(max(s0, 0) + 0.05, 1.0), s0 being the score that was at rank 1 before
\* the move; every other candidate keeps its score and its relative order.
PickMovedAndBoosted ==
    (last.op = "heal" /\ last.rerank_called
     /\ ValidPick(last.rerank_reply, last.offered))
    => LET pick == StripOrdinal(last.rerank_reply.text)
           s0 == last.reranked[1].score
       IN  /\ last.candidates = <<pick>> \o Without(RankedSelectors(last), pick)
           /\ Len(last.confidence_scores) = Len(last.candidates)
           /\ last.confidence_scores[1] = Min(Max(s0, 0) + 50, 1000)
           /\ \A i \in 2..Len(last.candidates) :
                 last.confidence_scores[i] = RankedScoreOf(last, last.candidates[i])

\* every ranked score is negative (the suggestion call gave negative
\* confidences) and the second candidate is picked: its score becomes
\* s0 + 0.05, which is below 0.05
NegativeTopBoosted ==
    /\ last.op = "heal" /\ last.rerank_called
    /\ ValidPick(last.rerank_reply, last.offered)
    /\ last.reranked[1].score = -300
    /\ last.candidates[1] = last.reranked[2].sel
    /\ last.confidence_scores = <<-250, -300>>

\* the final-score formula applied to one entry of the locally scored list
\* and the base confidence it was given: 0.1 * base for validation 0.0, else
\* the weighted sum, rounded to three decimals
FormulaScore(entry, base) ==
    IF entry.validation = 0 THEN RoundDiv(base, 10)
    ELSE RoundDiv(300 * base + 400 * entry.stable + 300 * entry.semantic, 1000)

\* the base confidence the request gave to a candidate of top
BaseGiven(r, sel) ==
    r.base_confidences[CHOOSE i \in 1..Len(r.top) : r.top[i] = sel]

\* the rerank pick was applied in this request
PickApplied(r) == r.rerank_called /\ ValidPick(r.rerank_reply, r.offered)

\* C15, as stated: the final score heal reports for each candidate is the
\* final-score formula applied to that candidate's base confidence,
\* stability, semantic score and validation; no step, the rerank step
\* included, sets it to another value.
ScoreAlwaysFromFormula ==
    (last.op = "heal" /\ last.stage = "pipeline")
    => /\ Len(last.confidence_scores) = Len(last.candidates)
       /\ \A i \in 1..Len(last.candidates) :
             \E k \in 1..Len(last.reranked) :
                /\ last.reranked[k].sel = last.candidates[i]
                /\ last.confidence_scores[i]
                     = FormulaScore(last.reranked[k], BaseGiven(last, last.candidates[i]))

\* C15, amended: the same for every candidate except the one that a rerank
\* pick moved to rank 1, whose reported score the rerank step sets from the
\* score that was at rank 1.
ScoreFromFormulaUnlessPicked ==
    (last.op = "heal" /\ last.stage = "pipeline")
    => /\ Len(last.confidence_scores) = Len(last.candidates)
       /\ \A i \in 1..Len(last.candidates) :
             \/ i = 1 /\ PickApplied(last)
             \/ \E k \in 1..Len(last.reranked) :
                   /\ last.reranked[k].sel = last.candidates[i]
                   /\ last.confidence_scores[i]
                        = FormulaScore(last.reranked[k],
                                       BaseGiven(last, last.candidates[i]))

\* a pick moved to rank 1 reports a score that is not its formula value,
\* while the candidate it displaced keeps its own
PickedScoreOffFormula ==
    /\ last.op = "heal" /\ last.stage = "pipeline" /\ PickApplied(last)
    /\ Len(last.candidates) > 2
    /\ last.candidates[1] = last.reranked[2].sel
    /\ last.confidence_scores[1] = last.reranked[1].score + 50
    /\ last.confidence_scores[1] # last.reranked[2].score
    /\ last.confidence_scores[2] = last.reranked[1].score

\* C16: the rerank collaborator is called in a heal request exactly when the
\* locally scored list has at least 2 candidates and the request has a
\* non-empty usage hint; it is then offered the first min(8, n) candidates of
\* that list, in that order, and it is called once: the request consumes one
\* reply when it calls and none when it does not.
RerankCalledIffTwoAndHint ==
    (last.op = "heal" /\ last.stage = "pipeline")
    => /\ last.rerank_called
            <=> (Len(last.reranked) >= 2 /\ last.req.use_of_selector # "")
       /\ last.rerank_called
            => last.offered = SubSeq(RankedSelectors(last), 1,
                                     Min(8, Len(last.reranked)))
       /\ ~last.rerank_called => last.offered = << >>
       /\ last.rerank_called <=> last.rerank_reply # NotCalled

\* exactly two candidates and a hint: the collaborator is called and offered
\* both
RerankCalledForTwo ==
    /\ last.op = "heal" /\ last.stage = "pipeline"
    /\ Len(last.reranked) = 2 /\ last.req.use_of_selector # ""
    /\ last.rerank_called /\ Len(last.offered) = 2

\* position of a candidate in the list final_rerank was given
InputIndex(call, sel) ==
    CHOOSE i \in 1..Len(call.candidates) : call.candidates[i] = sel

\* C17: final_rerank returns every candidate it was given, ordered by final
\* score descending, and two candidates of equal final score keep the
\* relative order they had in the input list.
RankedDescendingStable ==
    last.op = "final_rerank"
    => /\ Len(last.ranked) = Len(last.candidates)
       /\ {last.ranked[i].sel : i \in 1..Len(last.ranked)} = Range(last.candidates)
       /\ \A i, j \in 1..Len(last.ranked) :
             i < j => /\ last.ranked[i].score >= last.ranked[j].score
                      /\ last.ranked[i].score = last.ranked[j].score
                         => InputIndex(last, last.ranked[i].sel)
                              < InputIndex(last, last.ranked[j].sel)

\* two candidates tie at 0.05 (both absent from the page, base 0.5) and come
\* back in input order, the one given first having the later name
TiedInInputOrder ==
    /\ last.op = "final_rerank"
    /\ last.candidates = <<"button:has-text(\"Go\")", "#gone">>
    /\ last.base_confidences = <<500, 500>>
    /\ Len(last.ranked) = 2
    /\ last.ranked[1].score = 50 /\ last.ranked[2].score = 50
    /\ last.ranked[1].sel = "button:has-text(\"Go\")"

\* the stability the claim C18 describes, for CSS and XPath alike; depth and
\* contains() are measured as the code measures them
SpecifiedStability(sel) ==
    Max(1000
        - (IF is_volatile(sel) THEN 500 ELSE 0)
        - (IF Contains(":nth-child", sel) \/ (is_xpath(sel) /\ MatchesPosition(sel))
           THEN 150 ELSE 0)
        - (IF is_xpath(sel)
           THEN (IF Count("/", sel) > 4 THEN 200 ELSE 0)
           ELSE (IF Count(" ", sel) > 3 THEN 100 ELSE 0))
        - (IF is_xpath(sel) /\ Contains("contains(", sel) /\ ~Contains("@", sel)
           THEN 100 ELSE 0),
        0)

\* C18: the stability used in scoring is 1.0 minus 0.5 for a volatile
\* pattern, minus 0.15 for a positional pseudo-class or an XPath positional
\* predicate, minus 0.2 for a deep XPath or 0.1 for a deep CSS selector, minus
\* 0.1 for an XPath contains() without attribute predicate, floored at 0.0,
\* with nothing else added or subtracted, for CSS and XPath alike.
StabilityAsSpecified ==
    last.op = "final_rerank"
    => \A i \in 1..Len(last.ranked) :
          last.ranked[i].stable = SpecifiedStability(last.ranked[i].sel)

\* the XPath //div[2] is scored with stability 0.7: its positional predicate
\* costs 0.3
PositionalXPathCostsMore ==
    /\ last.op = "final_rerank"
    /\ \E i \in 1..Len(last.ranked) :
          /\ last.ranked[i].sel = "//div[2]"
          /\ last.ranked[i].stable = 700
          /\ SpecifiedStability("//div[2]") = 850

\* C19: every candidate scored in a heal request has base confidence,
\* stability and semantic score within [0, 1], validation 0.0, 0.5 or 1.0,
\* and a final score within [0, 1], also when the suggestion collaborator
\* supplied the base confidence.
SubScoresWithinUnit ==
    (last.op = "heal" /\ last.stage = "pipeline")
    => /\ \A i \in 1..Len(last.base_confidences) :
             last.base_confidences[i] \in 0..1000
       /\ \A i \in 1..Len(last.reranked) :
             /\ last.reranked[i].stable \in 0..1000
             /\ last.reranked[i].semantic \in 0..1000
             /\ last.reranked[i].validation \in {0, 500, 1000}
             /\ last.reranked[i].score \in 0..1000
       /\ \A i \in 1..Len(last.confidence_scores) :
             last.confidence_scores[i] \in 0..1000

\* the suggestion call answered a confidence of -5.0 for a candidate that is
\* absent from the page: base confidence -5.0, final score -0.5
NegativeBaseScored ==
    /\ last.op = "heal" /\ last.stage = "pipeline" /\ last.llm_used
    /\ \E i \in 1..Len(last.top) :
          last.top[i] = ".llm" /\ last.base_confidences[i] = -5000
    /\ \E k \in 1..Len(last.reranked) :
          /\ last.reranked[k].sel = ".llm"
          /\ last.reranked[k].validation = 0
          /\ last.reranked[k].score = -500

\* a CSS selector by its grammar: every XPath expression starts with a slash
IsCssSelector(sel) == ~StartsWith("/", sel)

\* the validation the claim C20 describes
SpecifiedValidation(sel, html_content) ==
    IF ~IsCssSelector(sel) THEN 500
    ELSE IF IsNone(html_content) THEN 500
    ELSE validate_selector_in_html(sel, html_content)

\* C20: the validation final_rerank uses is 0.5 for every XPath candidate and
\* for every candidate when there is no HTML; otherwise, for a CSS candidate,
\* 0.0 if it holds automation-only pseudo-syntax, else 1.0 if it matches a
\* node of the page and 0.0 if it matches none.  A CSS candidate is never
\* scored by the XPath branch.
ValidationAsSpecified ==
    last.op = "final_rerank"
    => \A i \in 1..Len(last.ranked) :
          LET e == last.ranked[i]
          IN  /\ e.validation = SpecifiedValidation(e.sel, last.html_content)
              /\ IsCssSelector(e.sel)
                 => /\ e.stable = stability_score(e.sel)
                    /\ e.semantic = semantic_score(e.sel)

\* the CSS selector a[href='mailto:a@b.c'] matches nothing on the page and
\* is scored with validation 0.5: the @ in its value makes is_xpath true
CssWithAtScoredAsXPath ==
    /\ last.op = "final_rerank" /\ last.html_content = Some(PageForm)
    /\ \E i \in 1..Len(last.ranked) :
          /\ last.ranked[i].sel = "a[href='mailto:a@b.c']"
          /\ last.ranked[i].validation = 500
          /\ validate_selector_in_html("a[href='mailto:a@b.c']", Some(PageForm)) = 0

\* the first selector the priority of C21 offers for an element: data-testid,
\* id, class with aria-label, class alone, tag with aria-label, tag with title
PrioritySelector(el, keywords) ==
    LET kw == Join(" ", Take(keywords, 2))
        has(name) == Get(el, name) # ""
    IN  CASE has("data-testid") -> "[data-testid='" \o Get(el, "data-testid") \o "']"
          [] ~has("data-testid") /\ has("id") -> "#" \o Get(el, "id")
          [] ~has("data-testid") /\ ~has("id") /\ el.class # << >> /\ has("aria-label")
               -> el.name \o "." \o ClassChain(el) \o "[aria-label*='" \o kw \o "']"
          [] ~has("data-testid") /\ ~has("id") /\ el.class # << >> /\ ~has("aria-label")
               -> el.name \o "." \o ClassChain(el)
          [] ~has("data-testid") /\ ~has("id") /\ el.class = << >> /\ has("aria-label")
               -> el.name \o "[aria-label*='" \o kw \o "']"
          [] ~has("data-testid") /\ ~has("id") /\ el.class = << >> /\ ~has("aria-label")
             /\ has("title")
               -> el.name \o "[title*='" \o kw \o "']"
          [] OTHER -> ""

RECURSIVE PriorityPicks(_, _)
\* one selector per element matched by a keyword, in document order, without
\* repetitions
PriorityPicks(elements, keywords) ==
    IF elements = << >> THEN << >>
    ELSE LET rest == PriorityPicks(Take(elements, Len(elements) - 1), keywords)
             el == elements[Len(elements)]
             pick == PrioritySelector(el, keywords)
         IN  IF KeywordMatch(el, keywords) /\ pick # "" /\ ~InSeq(pick, rest)
             THEN Append(rest, pick) ELSE rest

\* C21: with a usage hint, the output of candidate_from_dom starts with the
\* semantic candidates, at most one per matched element and chosen by the
\* priority data-testid, id, class with aria-label, class alone, tag with
\* aria-label, tag with title; every plain candidate that is not a semantic
\* candidate comes after all of them.
SemanticBeforePlain ==
    (last.op = "generate" /\ last.use_of_selector # "")
    => LET picks == PriorityPicks(FindAll(last.html), last.keywords)
           n == Cardinality({i \in 1..Len(last.css) : InSeq(last.css[i], picks)})
       IN  /\ Take(last.css, n) = Take(picks, n)
           /\ \A i \in 1..Len(last.css) : \A j \in 1..Len(last.css) :
                (InSeq(last.css[i], picks) /\ ~InSeq(last.css[j], picks)) => i < j

\* the form page with the hint "watch the webinar": the input and the image
\* match, each gives one semantic candidate (id, data-testid) although both
\* have a class too, and the plain candidates follow
SemanticThenPlainOnForm ==
    /\ last.op = "generate" /\ last.html = PageForm
    /\ last.use_of_selector = "watch the webinar"
    /\ Len(last.css) > 3
    /\ Take(last.css, 3) = <<"#queue", "[data-testid='hero']", "html:has-text(\"Go\")">>
    /\ ~InSeq("input.aria-busy", last.css)

\* C22: each keyword extract_keywords returns is lowercase, is no stop word
\* and is longer than 2 characters; in particular none is the empty string.
KeywordsWellFormed ==
    last.op = "generate"
    => \A k \in 1..Len(last.keywords) :
          /\ Lower(last.keywords[k]) = last.keywords[k]
          /\ last.keywords[k] \notin stop_words
          /\ Len(last.keywords[k]) > 2

\* the hint "Click the ... Go!" gives the keywords "" and "go": the length
\* test is made on the word before its punctuation is stripped, and the empty
\* keyword matches the html element, which has no text of the hint
EmptyKeyword ==
    /\ last.op = "generate" /\ last.use_of_selector = "Click the ... Go!"
    /\ last.keywords = <<"", "go">>
    /\ last.html = PageWebinar
    /\ KeywordMatch(FindAll(last.html)[1], last.keywords)

RECURSIVE NonIncreasing(_)
NonIncreasing(scores) ==
    Len(scores) < 2 \/ (scores[1] >= scores[2] /\ NonIncreasing(Tail(scores)))

\* C23: in every non-cached answer of heal the candidate list and the
\* confidence-score list have the same length, the score at index i is the
\* score of the candidate at index i, and the scores are non-increasing, also
\* after a rerank pick was moved to rank 1 (its score is not below the score
\* of the candidate that was at rank 1 before).
ListsAlignedAndNonIncreasing ==
    (last.op = "heal" /\ last.stage = "pipeline")
    => /\ Len(last.candidates) = Len(last.confidence_scores)
       /\ \A i \in 1..Len(last.candidates) :
             \/ last.confidence_scores[i] = RankedScoreOf(last, last.candidates[i])
             \/ i = 1 /\ PickApplied(last)
       /\ NonIncreasing(last.confidence_scores)
       /\ PickApplied(last) => last.confidence_scores[1] >= last.reranked[1].score

\* the suggestion call gave its confidences as percentages (95, 90): the
\* ranked scores are above 1.0, the picked candidate gets min(s0 + 0.05, 1.0)
\* = 1.0 and stands in front of the former first, whose score is higher
PromotedBelowFormerFirst ==
    /\ last.op = "heal" /\ last.stage = "pipeline" /\ PickApplied(last)
    /\ Len(last.confidence_scores) >= 2
    /\ last.reranked[1].score > 1000
    /\ last.confidence_scores[1] = 1000
    /\ last.confidence_scores[2] = last.reranked[1].score

\* the validation final_rerank gave the selector
RankedValidationOf(r, sel) ==
    r.reranked[CHOOSE i \in 1..Len(r.reranked) : r.reranked[i].sel = sel].validation

\* C24: the chosen candidate never has validation 0.0 while the ranked list
\* holds a candidate with another validation; the rerank step cannot promote
\* a selector confirmed absent above selectors that match or are unverified.
ChosenNotAbsentWhileOthersAre ==
    (last.op = "heal" /\ last.stage = "pipeline" /\ ~IsNone(last.chosen))
    => (RankedValidationOf(last, last.chosen[1]) = 0
        => \A i \in 1..Len(last.reranked) : last.reranked[i].validation = 0)

\* the locally ranked list starts with a selector that matches the page, the
\* collaborator picks an offered selector with validation 0.0, and that one
\* is chosen and saved
AbsentPickChosen ==
    /\ last.op = "heal" /\ last.stage = "pipeline" /\ PickApplied(last)
    /\ last.reranked[1].validation = 1000
    /\ RankedValidationOf(last, last.chosen[1]) = 0
    /\ last.saved /\ healed[Len(healed)].new_selector = last.chosen[1]

\* the entry final_rerank made for the selector
RankedEntry(r, sel) == r.ranked[CHOOSE i \in 1..Len(r.ranked) : r.ranked[i].sel = sel]

\* C25: [data-testid='v'] is not volatile under the configured patterns, so
\* when it and a class-only selector of the same element both match the page
\* and have the same base confidence, its final score is not the lower one.
TestIdNotVolatile ==
    (/\ last.op = "final_rerank" /\ last.html_content = Some(PageForm)
     /\ InSeq("[data-testid='submit-btn']", last.candidates)
     /\ InSeq(".btn", last.candidates)
     /\ BaseOf(last, "[data-testid='submit-btn']") = BaseOf(last, ".btn"))
    => /\ ~is_volatile("[data-testid='submit-btn']")
       /\ RankedEntry(last, "[data-testid='submit-btn']").stable = 1000
       /\ RankedEntry(last, "[data-testid='submit-btn']").score
             >= RankedEntry(last, ".btn").score

\* the button of the form page has data-testid submit-btn and class btn; both
\* selectors match and have base confidence 0.5, and the data-testid selector
\* is ranked behind the class with stability 0.5
TestIdRankedBehindClass ==
    /\ last.op = "final_rerank" /\ last.html_content = Some(PageForm)
    /\ last.candidates = <<"[data-testid='submit-btn']", ".btn">>
    /\ last.base_confidences = <<500, 500>>
    /\ last.ranked[1].sel = ".btn" /\ last.ranked[2].sel = "[data-testid='submit-btn']"
    /\ last.ranked[1].validation = 1000 /\ last.ranked[2].validation = 1000
    /\ last.ranked[2].stable = 500
    /\ last.ranked[2].score < last.ranked[1].score

\* C26: every CSS candidate candidate_from_dom derives from a page (attribute,
\* tag-plus-text and semantic candidates) gets validation 1.0 when
\* validate_selector_in_html checks it against that page.
GeneratedCandidatesValidate ==
    last.op = "generate"
    => \A i \in 1..Len(last.css) :
          validate_selector_in_html(last.css[i], Some(last.html)) = 1000

\* the form page with the hint "watch the webinar": the attribute candidates
\* validate, the tag-plus-text candidate of the button does not
TextCandidateFailsValidation ==
    /\ last.op = "generate" /\ last.html = PageForm
    /\ last.use_of_selector = "watch the webinar"
    /\ InSeq("button:has-text(\"Go\")", last.css)
    /\ validate_selector_in_html("button:has-text(\"Go\")", Some(PageForm)) = 0
    /\ validate_selector_in_html("[data-testid='submit-btn']", Some(PageForm)) = 1000
    /\ \E i \in 1..Len(last.ranked) :
          last.ranked[i].sel = "button:has-text(\"Go\")" /\ last.ranked[i].validation = 0

\* what a memory hit has to answer: the remembered selector, as chosen
AnswersRemembered(memory, trace, result) ==
    trace.stage = "memory"
    => /\ trace.status = 200
       /\ result.chosen = Some(LatestRow(memory, trace.req.failed_selector).new_selector)

\* C27: after any sequence of heal, heal-batch and feedback requests the
\* memory holds at most one record per old selector: once a heal of S has
\* appended a record, every later heal of S, also a later item of the same
\* batch, is a memory hit that returns that record's new selector and appends
\* nothing, whatever the DOM and whatever feedback the record has.
OneRecordPerSelector ==
    /\ \A i \in 1..Len(healed) : \A j \in 1..Len(healed) :
          healed[i].old_selector = healed[j].old_selector => i = j
    /\ (last.op = "heal" /\ last.stage = "memory")
       => /\ ~IsNone(last.response)
          /\ AnswersRemembered(healed, last, last.response[1])
    /\ (last.op = "heal_batch" /\ last.status = 200)
       => \A k \in 1..Len(last.traces) :
             AnswersRemembered(healed, last.traces[k], last.results[k])

\* the record of #old has negative feedback; a batch asks for #old twice, with
\* two DOMs: both items are memory hits, nothing is appended, and both results
\* are failures without a chosen selector
RememberedItemsFail ==
    /\ last.op = "heal_batch" /\ last.status = 200 /\ Len(last.req) = 2
    /\ last.req[1].semantic_dom # last.req[2].semantic_dom
    /\ last.before = healed /\ Len(healed) = 1
    /\ healed[1].old_selector = "#old" /\ healed[1].success = "false"
    /\ \A k \in 1..2 :
          /\ last.traces[k].stage = "memory" /\ last.traces[k].status = 500
          /\ last.traces[k].chosen = Some(healed[1].new_selector)
          /\ last.results[k].chosen = None /\ last.results[k].candidates = << >>
    /\ last.total_failed = 2

\* C28: heal_batch returns one result per item in input order, with
\* total_processed the number of items and total_succeeded + total_failed =
\* total_processed; an item whose heal raises is counted as failed with an
\* empty candidate list and no chosen selector, and the items after it are
\* processed.
BatchCountsEveryItem ==
    (last.op = "heal_batch" /\ last.status = 200)
    => /\ Len(last.results) = Len(last.req)
       /\ Len(last.traces) = Len(last.req)
       /\ last.total_processed = Len(last.req)
       /\ last.total_succeeded + last.total_failed = last.total_processed
       /\ \A k \in 1..Len(last.req) :
             /\ last.traces[k].req = last.req[k]
             /\ k <= Len(last.results)
                => IF last.traces[k].status = 200
                   THEN last.results[k] = last.traces[k].response[1]
                   ELSE /\ last.results[k].candidates = << >>
                        /\ last.results[k].chosen = None
       /\ last.total_failed
             >= Cardinality({k \in 1..Len(last.req) : last.traces[k].status # 200})

\* the first item finds candidates, saves its record and raises; the second
\* item, which has no candidate, is still processed and answers normally
BatchGoesOnAfterRaise ==
    /\ last.op = "heal_batch" /\ last.status = 200 /\ Len(last.req) = 2
    /\ last.traces[1].stage = "pipeline" /\ last.traces[1].status = 500
    /\ last.results[1].message = "Failed" /\ last.results[1].candidates = << >>
    /\ last.traces[2].stage = "pipeline" /\ last.traces[2].status = 200
    /\ last.results[2].message = "Smart Healed"
    /\ last.total_processed = 2 /\ last.total_failed = 2
    /\ Len(healed) = Len(last.before) + 1

\* C29: every record heal appends stores the chosen selector as newSelector,
\* the chosen selector's final score as confidence, and the kind (css or
\* xpath) of the chosen selector as selectorType.
RecordDescribesChosen ==
    (last.op = "heal" /\ last.saved)
    => LET record == healed[Len(healed)]
       IN  /\ record.id = last.healing_id[1]
           /\ record.new_selector = last.chosen[1]
           /\ record.confidence = last.confidence_scores[1]
           /\ record.selector_type = IF is_xpath(last.chosen[1]) THEN "xpath" ELSE "css"

\* the merged list starts with a CSS candidate and the chosen selector is an
\* XPath: the record holds the XPath with selector type css
XPathSavedAsCss ==
    /\ last.op = "heal" /\ last.saved
    /\ ~StartsWith("/", last.top[1])
    /\ StartsWith("//", last.chosen[1])
    /\ healed[Len(healed)].new_selector = last.chosen[1]
    /\ healed[Len(healed)].selector_type = "css"

\* C30: in every record and response metadata of heal, screenshot_analyzed is
\* true only if the request supplied a screenshot path and screenshot
\* analysis is enabled, also when the suggestion call failed and the local
\* candidates were used.
ScreenshotAnalyzedOnlyWithScreenshot ==
    (last.op = "heal" /\ last.stage = "pipeline")
    => /\ last.screenshot_analyzed
          => (last.req.screenshot_path # "" /\ config.ENABLE_SCREENSHOT_ANALYSIS)
       /\ last.saved
          => (healed[Len(healed)].screenshot_analyzed
              => (last.req.screenshot_path # "" /\ config.ENABLE_SCREENSHOT_ANALYSIS))

\* a request without a screenshot whose suggestion call failed: the vision
\* model was not asked, and the saved record says the screenshot was analyzed
AnalyzedWithoutScreenshot ==
    /\ last.op = "heal" /\ last.stage = "pipeline" /\ last.saved
    /\ last.req.screenshot_path = "" /\ ~last.vision_called
    /\ SuggestionFailed(last.llm_out) /\ ~last.llm_used
    /\ last.screenshot_analyzed
    /\ healed[Len(healed)].screenshot_analyzed
====
